---- MODULE Spec2Model ----
(***************************************************************************)
(* Spell tree synthesis engine: plugin registry, growth-shape parent       *)
(* selection, the tree-builder orchestrator (root selection, per-theme     *)
(* linking, convergence, orphan attachment, high-tier convergence          *)
(* enforcement, reachability repair).                                      *)
(*                                                                         *)
(* Node ids are the positions of the spells in the input list; 0 is None.  *)
(* children / prerequisites are kept as sets: TreeNode.add_child and       *)
(* add_prerequisite never store an id twice, so the lists are sets with an *)
(* insertion order that no decision of the builder reads.                  *)
(* Probabilities are integers in hundredths.                               *)
(***************************************************************************)
EXTENDS Integers, Sequences, FiniteSets, TLC

VARIABLES
    spells,     \* input item list of the school being built
    cfg,        \* TreeBuilderConfig (with the school configuration applied to)
    b,          \* the builder run: shape instance, node table, loop locals
    twin,       \* a second run on the same inputs and the same random stream
    plugins,    \* PluginRegistry._plugins
    result      \* outcome of the last registry call

vars == <<spells, cfg, b, twin, plugins, result>>

None == 0

----------------------------------------------------------------------------
(* Bounds *)

NumItems == 3
MaxDraw == 1
MaxChain == 11

Ids == 1..NumItems

----------------------------------------------------------------------------
(* Generic helpers *)

SeqToSet(seq) == {seq[i] : i \in DOMAIN seq}

RECURSIVE FilterSeq(_, _)
FilterSeq(seq, keep) ==
    IF seq = <<>> THEN <<>>
    ELSE IF Head(seq) \in keep
         THEN <<Head(seq)>> \o FilterSeq(Tail(seq), keep)
         ELSE FilterSeq(Tail(seq), keep)

RECURSIVE ConcatAll(_)
ConcatAll(seqs) ==
    IF seqs = <<>> THEN <<>> ELSE Head(seqs) \o ConcatAll(Tail(seqs))

Min2(x, y) == IF x < y THEN x ELSE y
Max2(x, y) == IF x > y THEN x ELSE y
Abs(x) == IF x < 0 THEN 0 - x ELSE x

\* min(seq, key=K): the first element with the smallest key
ArgMinFirst(seq, key) ==
    seq[CHOOSE i \in DOMAIN seq :
            /\ \A j \in DOMAIN seq : key[seq[i]] <= key[seq[j]]
            /\ \A j \in 1..(i - 1) : key[seq[j]] > key[seq[i]]]

\* max(seq, key=K), and the head of a stable descending sort by K
ArgMaxFirst(seq, key) ==
    seq[CHOOSE i \in DOMAIN seq :
            /\ \A j \in DOMAIN seq : key[seq[i]] >= key[seq[j]]
            /\ \A j \in 1..(i - 1) : key[seq[j]] < key[seq[i]]]

\* random.choice(seq) for the draw d of the random stream
RandomChoice(seq, d) == seq[(d % Len(seq)) + 1]

\* self.rng.choice(seq) of a shape: the generator of the shape is seeded with
\* the seed of the run, d is its next draw
RngChoice(seq, d) == seq[(d % Len(seq)) + 1]

----------------------------------------------------------------------------
(* core/registry.py: PluginRegistry *)

\* A name is a lower-case base name plus a flag for an upper-case spelling.
BaseNames == {"organic", "radial", "grid", "linear", "cascade", "mountain",
              "spiky", "cloud", "explosion"}
Names == [base : BaseNames, upper : BOOLEAN]
Name(base) == [base |-> base, upper |-> FALSE]
NoClass == "NoneType"

\* str.lower()
Lower(name) == [base |-> name.base, upper |-> FALSE]

RegistryGet(plugs, name) ==
    IF Lower(name) \in DOMAIN plugs THEN plugs[Lower(name)] ELSE NoClass

RegistryListNames(plugs) == DOMAIN plugs

RegistryHas(plugs, name) == Lower(name) \in DOMAIN plugs

RegistryCreateDefault(plugs, name) ==
    LET plugin_class == RegistryGet(plugs, name)
    IN  IF plugin_class = NoClass
        THEN IF DOMAIN plugs = {}
             THEN [kind |-> "KeyError", name |-> name,
                   available |-> RegistryListNames(plugs)]
             ELSE [kind |-> "instance", name |-> name,
                   class |-> plugs[CHOOSE n \in DOMAIN plugs : TRUE]]
        ELSE [kind |-> "instance", name |-> name, class |-> plugin_class]

\* create(name, ...): an instance of the registered class, or KeyError
\* "Unknown <type> '<name>'. Available: <names>"
RegistryCreate(plugs, name) ==
    LET plugin_class == RegistryGet(plugs, name)
    IN  IF plugin_class = NoClass
        THEN [kind |-> "KeyError", name |-> name,
              available |-> RegistryListNames(plugs)]
        ELSE [kind |-> "instance", name |-> name, class |-> plugin_class]

\* the plugin is stored under the name as written
RegistryRegisterAsGiven(plugs, name, plugin_class) ==
    [n \in DOMAIN plugs \cup {name} |->
        IF n = name THEN plugin_class ELSE plugs[n]]

\* the decorator returned by register(name), applied to plugin_class
RegistryRegister(plugs, name, plugin_class) ==
    [n \in DOMAIN plugs \cup {Lower(name)} |->
        IF n = Lower(name) THEN plugin_class ELSE plugs[n]]

\* shapes/shape_*.py: the @register_shape declarations
ShapeRegistryPlugins ==
    [n \in {Name(x) : x \in {"organic", "radial", "grid", "linear", "cascade",
                            "mountain", "spiky", "cloud"}} |->
        CASE n.base = "organic"  -> "OrganicShape"
          [] n.base = "radial"   -> "RadialShape"
          [] n.base = "grid"     -> "GridShape"
          [] n.base = "linear"   -> "LinearShape"
          [] n.base = "cascade"  -> "CascadeShape"
          [] n.base = "mountain" -> "MountainShape"
          [] n.base = "spiky"    -> "SpikyShape"
          [] n.base = "cloud"    -> "CloudShape"]

\* shapes/__init__.py: get_shape(name, config)
get_shape(name) == RegistryCreate(ShapeRegistryPlugins, name)

----------------------------------------------------------------------------
(* tree_builder.py: constants and tier conversions *)

TIER_ORDER == <<"Novice", "Apprentice", "Adept", "Expert", "Master">>

\* TIER_ORDER.index(tier), -1 for a ValueError
TierIndex(tier) ==
    IF \E i \in DOMAIN TIER_ORDER : TIER_ORDER[i] = tier
    THEN (CHOOSE i \in DOMAIN TIER_ORDER : TIER_ORDER[i] = tier) - 1
    ELSE 0 - 1

tier_to_depth(tier) == IF TierIndex(tier) >= 0 THEN TierIndex(tier) ELSE 0

\* the key of _sort_by_tier
SortKey(tier) == IF TierIndex(tier) >= 0 THEN TierIndex(tier) ELSE Len(TIER_ORDER)

\* sorted(seq, key): stable, for integer keys in lo..hi
SortByKey(seq, key, lo, hi) ==
    ConcatAll([k \in 1..(hi - lo + 1) |->
        FilterSeq(seq, {x \in SeqToSet(seq) : key[x] = lo + k - 1})])

sort_by_tier(ids) ==
    SortByKey(ids, [i \in SeqToSet(ids) |-> SortKey(spells[i].skillLevel)],
              0, Len(TIER_ORDER))

IdSeq == [i \in DOMAIN spells |-> i]

----------------------------------------------------------------------------
(* core/node.py: TreeNode and link_nodes *)

TreeNodeFromSpell(spell) ==
    [tier |-> spell.skillLevel, theme |-> spell.theme, depth |-> 0,
     is_root |-> FALSE, children |-> {}, prerequisites |-> {}]

add_child(nodes, id, child) ==
    [nodes EXCEPT ![id].children = @ \cup {child}]

add_prerequisite(nodes, id, prereq) ==
    [nodes EXCEPT ![id].prerequisites = @ \cup {prereq}]

link_nodes(nodes, parent, child) ==
    [add_prerequisite(add_child(nodes, parent, child), child, parent)
        EXCEPT ![child].depth = nodes[parent].depth + 1]

NumChildren(nodes, id) == Cardinality(nodes[id].children)
NumPrereqs(nodes, id) == Cardinality(nodes[id].prerequisites)

----------------------------------------------------------------------------
(* tree_builder.py: graph traversals *)

RECURSIVE Closure(_, _)
Closure(nodes, seen) ==
    LET next == seen \cup UNION {nodes[i].children : i \in seen \cap DOMAIN nodes}
    IN  IF next = seen THEN seen ELSE Closure(nodes, next)

\* _get_reachable_from_root: forward traversal over children
get_reachable_from_root(nodes, root_id) == Closure(nodes, {root_id})

\* _is_descendant(potential_ancestor, node_id): the traversal starts at
\* node_id, follows children and answers whether it meets potential_ancestor
is_descendant(potential_ancestor, node_id, nodes) ==
    potential_ancestor \in Closure(nodes, {node_id})

\* one sweep of _simulate_unlocks over nodes.items(), from id i on
RECURSIVE UnlockSweep(_, _, _)
UnlockSweep(nodes, unlocked, i) ==
    IF i \notin DOMAIN nodes THEN unlocked
    ELSE IF /\ i \notin unlocked
            /\ nodes[i].prerequisites # {}
            /\ nodes[i].prerequisites \subseteq unlocked
         THEN UnlockSweep(nodes, unlocked \cup {i}, i + 1)
         ELSE UnlockSweep(nodes, unlocked, i + 1)

RECURSIVE UnlockLoop(_, _, _)
UnlockLoop(nodes, unlocked, iterations) ==
    LET swept == UnlockSweep(nodes, unlocked, 1)
    IN  IF iterations = 0 THEN unlocked
        ELSE IF swept = unlocked THEN unlocked
        ELSE UnlockLoop(nodes, swept, iterations - 1)

\* _simulate_unlocks: max_iterations = len(nodes) + 10
simulate_unlocks(nodes, root_id) ==
    UnlockLoop(nodes, {root_id}, Cardinality(DOMAIN nodes) + 10)

----------------------------------------------------------------------------
(* shapes/shape_*.py: select_parent *)

NoShape == "NoneType"

\* self.config.max_children[1], from the defaults of each shape class
ShapeMaxChildren(shape) ==
    CASE shape = "LinearShape"   -> 2
      [] shape = "CascadeShape"  -> 3
      [] shape = "MountainShape" -> 3
      [] shape = "OrganicShape"  -> 3
      [] shape = "RadialShape"   -> 8
      [] shape = "GridShape"     -> 4
      [] shape = "SpikyShape"    -> 2
      [] shape = "CloudShape"    -> 3
      [] OTHER                   -> 3

\* every candidate counts as available
ShapeAvailableAll(shape, nodes, candidates) == candidates

\* available = [c for c in candidates if len(c.children) < max_children]
ShapeAvailable(shape, nodes, candidates) ==
    FilterSeq(candidates, {c \in SeqToSet(candidates) :
                              NumChildren(nodes, c) < ShapeMaxChildren(shape)})

LinearSelectParent(nodes, node, candidates, d) ==
    LET available   == ShapeAvailable("LinearShape", nodes, candidates)
        no_children == FilterSeq(available, {c \in SeqToSet(available) :
                                                NumChildren(nodes, c) = 0})
        same_theme  == FilterSeq(no_children, {c \in SeqToSet(no_children) :
                                                nodes[c].theme = nodes[node].theme})
        K(c)        == NumChildren(nodes, c)
    IN  IF available = <<>> THEN None
        ELSE IF no_children # <<>>
             THEN IF same_theme # <<>> THEN RngChoice(same_theme, d)
                  ELSE RngChoice(no_children, d)
             ELSE ArgMinFirst(available, [elem \in SeqToSet(available) |-> K(elem)])

\* CascadeShape._tier_index / MountainShape._tier_index
ShapeTierIndex(tier) == IF TierIndex(tier) >= 0 THEN TierIndex(tier) ELSE 0

CascadeSelectParent(nodes, node, candidates) ==
    LET available   == ShapeAvailable("CascadeShape", nodes, candidates)
        node_tier   == ShapeTierIndex(nodes[node].tier)
        ideal_depth == IF node_tier > 0 THEN node_tier - 1 ELSE 0
        same_tier   == FilterSeq(available, {c \in SeqToSet(available) :
                                                nodes[c].depth = ideal_depth})
        K1(c)       == NumChildren(nodes, c)
        \* the tuple key (abs(c.depth - ideal_depth), len(c.children))
        K2(c)       == Abs(nodes[c].depth - ideal_depth) * (NumItems + 1)
                       + NumChildren(nodes, c)
    IN  IF available = <<>> THEN None
        ELSE IF same_tier # <<>> THEN ArgMinFirst(same_tier, [elem \in SeqToSet(same_tier) |-> K1(elem)])
        ELSE ArgMinFirst(available, [elem \in SeqToSet(available) |-> K2(elem)])

MountainSelectParent(nodes, node, candidates) ==
    LET available  == ShapeAvailable("MountainShape", nodes, candidates)
        tier       == ShapeTierIndex(nodes[node].tier)
        same_theme == FilterSeq(available, {c \in SeqToSet(available) :
                                               nodes[c].theme = nodes[node].theme})
        pool       == IF same_theme # <<>> THEN same_theme ELSE available
        K(c)       == NumChildren(nodes, c)
        \* depth * 0.5 + len(children) * 0.3, in tenths
        score(p)   == nodes[p].depth * 5 + NumChildren(nodes, p) * 3
    IN  IF available = <<>> THEN None
        ELSE IF tier <= 1 THEN ArgMinFirst(available, [elem \in SeqToSet(available) |-> K(elem)])
        ELSE ArgMaxFirst(pool, [elem \in SeqToSet(pool) |-> score(elem)])

ShapeSelectParent(shape, nodes, node, candidates, d) ==
    CASE shape = "LinearShape"   -> LinearSelectParent(nodes, node, candidates, d)
      [] shape = "CascadeShape"  -> CascadeSelectParent(nodes, node, candidates)
      [] shape = "MountainShape" -> MountainSelectParent(nodes, node, candidates)

\* ShapeProfile.score_parent_candidate, in hundredths: theme match plus the
\* inverse of the distance in depth
score_parent_candidate(nodes, node, c) ==
    (IF nodes[c].theme = nodes[node].theme THEN 100 ELSE 0)
    + (100 \div (1 + Abs(nodes[node].depth - nodes[c].depth)))

\* scored.sort(key=score, reverse=True): stable, highest score first
SortByScoreDesc(seq, score) ==
    LET Rank(i) == 1 + Cardinality({j \in DOMAIN seq :
                        \/ score[seq[j]] > score[seq[i]]
                        \/ score[seq[j]] = score[seq[i]] /\ j < i})
    IN  [r \in DOMAIN seq |-> seq[CHOOSE i \in DOMAIN seq : Rank(i) = r]]

\* jitter[i] is rng.uniform(-0.2, 0.2) for the i-th available candidate and r
\* the value of rng.random(), in hundredths
OrganicSelectParent(nodes, node, candidates, jitter, r) ==
    LET available == ShapeAvailable("OrganicShape", nodes, candidates)
        Pos(c)    == CHOOSE i \in DOMAIN available : available[i] = c
        Want      == IF nodes[node].depth > 0 THEN nodes[node].depth - 1 ELSE 0
        score     == [c \in SeqToSet(available) |->
                         20 + score_parent_candidate(nodes, node, c)
                         + jitter[Pos(c)]
                         + (IF Abs(nodes[c].depth - Want) = 0 THEN 30 ELSE 0)]
        scored    == SortByScoreDesc(available, score)
    IN  IF available = <<>> THEN None
        ELSE IF Len(scored) > 1 /\ r < 20 THEN scored[2]
        ELSE scored[1]

spoke_count == 5

\* scores in hundredths
RadialSelectParent(nodes, node, candidates) ==
    LET available == ShapeAvailable("RadialShape", nodes, candidates)
        score == [c \in SeqToSet(available) |->
                     200
                     + (IF nodes[c].theme = nodes[node].theme THEN 150 ELSE 0)
                     + (IF nodes[c].depth = nodes[node].depth - 1 THEN 50 ELSE 0)
                     - NumChildren(nodes, c) * 10
                     + (IF nodes[c].is_root /\ NumChildren(nodes, c) < spoke_count
                        THEN 100 ELSE 0)]
    IN  IF available = <<>> THEN None
        ELSE SortByScoreDesc(available, score)[1]

\* theme_coherence 0.6 and prefer_horizontal True, from the defaults
GridSelectParent(nodes, node, candidates) ==
    LET available == ShapeAvailable("GridShape", nodes, candidates)
        Diff(c) == nodes[node].depth - nodes[c].depth
        score == [c \in SeqToSet(available) |->
                     200
                     + (IF Diff(c) = 1 THEN 100 ELSE IF Diff(c) = 0 THEN 50 ELSE 0)
                     - NumChildren(nodes, c) * 20
                     + (IF nodes[c].theme = nodes[node].theme THEN 30 ELSE 0)
                     + (IF nodes[c].depth = nodes[node].depth - 1 THEN 30 ELSE 0)]
    IN  IF available = <<>> THEN None
        ELSE SortByScoreDesc(available, score)[1]

SpikySelectParent(nodes, node, candidates, d) ==
    LET available  == ShapeAvailable("SpikyShape", nodes, candidates)
        tips       == FilterSeq(available, {c \in SeqToSet(available) :
                                               NumChildren(nodes, c) = 0})
        same_theme == FilterSeq(tips, {c \in SeqToSet(tips) :
                                          nodes[c].theme = nodes[node].theme})
    IN  IF available = <<>> THEN None
        ELSE IF tips # <<>>
             THEN IF same_theme # <<>> THEN RngChoice(same_theme, d)
                  ELSE RngChoice(tips, d)
             ELSE ArgMaxFirst(available,
                              [c \in SeqToSet(available) |-> nodes[c].depth])

\* clustered: the nodes of _node_cluster; roomy: those whose cluster holds
\* fewer than cluster_size nodes
CloudSelectParent(nodes, node, candidates, clustered, roomy, d) ==
    LET available  == ShapeAvailable("CloudShape", nodes, candidates)
        same_theme == FilterSeq(available, {c \in SeqToSet(available) :
                                               nodes[c].theme = nodes[node].theme})
        in_cluster == FilterSeq(same_theme, clustered)
        with_room  == FilterSeq(in_cluster, roomy)
    IN  IF available = <<>> THEN None
        ELSE IF same_theme # <<>>
             THEN IF with_room # <<>> THEN Head(with_room)
                  ELSE RngChoice(same_theme, d)
             ELSE RngChoice(available, d)

ShapeClasses ==
    {"OrganicShape", "RadialShape", "GridShape", "LinearShape",
     "CascadeShape", "MountainShape", "SpikyShape", "CloudShape"}

\* select_parent of the shape class, on the draws dr of its generator
SelectParentOf(shape, nodes, node, candidates, dr) ==
    CASE shape = "OrganicShape" ->
             OrganicSelectParent(nodes, node, candidates, dr.jitter, dr.r)
      [] shape = "RadialShape"  -> RadialSelectParent(nodes, node, candidates)
      [] shape = "GridShape"    -> GridSelectParent(nodes, node, candidates)
      [] shape = "SpikyShape"   -> SpikySelectParent(nodes, node, candidates, dr.d)
      [] shape = "CloudShape"   ->
             CloudSelectParent(nodes, node, candidates, dr.clustered, dr.roomy, dr.d)
      [] OTHER -> ShapeSelectParent(shape, nodes, node, candidates, dr.d)

----------------------------------------------------------------------------
(* tree_builder.py: _score_parent and _find_parent *)

\* the candidate is rejected (score -9999)
ScoreRejects(nodes, node, candidate) ==
    /\ nodes[node].depth = nodes[candidate].depth
    /\ ~cfg.allow_same_tier_links

\* _score_parent with the default scoring settings, multiplied by
\* max_children_per_node to stay in the integers
score_parent(nodes, node, candidate) ==
    LET nt == nodes[node].theme
        ct == nodes[candidate].theme
        element == IF nt # "_unassigned" /\ ct # "_unassigned"
                   THEN (IF nt = ct THEN 100 ELSE 0 - 50) ELSE 0
        coherence == IF nt = ct THEN 70 ELSE 0
        tier_diff == nodes[node].depth - nodes[candidate].depth
        progression == IF tier_diff = 1 THEN 50
                       ELSE IF tier_diff = 2 THEN 30
                       ELSE IF tier_diff > 2 THEN 0 - 20 ELSE 0
        same_tier == IF tier_diff = 0 THEN 10 ELSE 0
    IN  (element + coherence + progression + same_tier) * cfg.max_children_per_node
        - NumChildren(nodes, candidate) * 30

Avail(available, d) == IF d \in DOMAIN available THEN available[d] ELSE <<>>

WithCapacity(nodes, seq) ==
    FilterSeq(seq, {c \in SeqToSet(seq) :
                       NumChildren(nodes, c) < cfg.max_children_per_node})

\* candidates with capacity at the depths lo..hi, in depth then insertion order
CandidatesInRange(nodes, available, lo, hi) ==
    ConcatAll([k \in 1..(hi - lo + 1) |->
        WithCapacity(nodes, Avail(available, lo + k - 1))])

\* the fallback: the shallowest depth below target_depth that has capacity
FallbackCandidates(nodes, available, target_depth) ==
    LET depths == {dd \in DOMAIN available :
                      /\ dd < target_depth
                      /\ WithCapacity(nodes, available[dd]) # <<>>}
    IN  IF depths = {} THEN <<>>
        ELSE WithCapacity(nodes,
                 available[CHOOSE dd \in depths : \A e \in depths : dd <= e])

FindCandidates(nodes, available, target_depth) ==
    LET lo == IF cfg.strict_tier_ordering THEN 0 ELSE Max2(0, target_depth - 2)
        hi == IF cfg.strict_tier_ordering
              THEN (IF cfg.allow_same_tier_links THEN target_depth
                    ELSE target_depth - 1)
              ELSE target_depth + 1
        all_candidates == CandidatesInRange(nodes, available, lo, hi)
    IN  IF all_candidates # <<>> THEN all_candidates
        ELSE FallbackCandidates(nodes, available, target_depth)

find_parent(shape, nodes, available, node, target_depth, d) ==
    LET all_candidates == FindCandidates(nodes, available, target_depth)
        kept   == FilterSeq(all_candidates,
                      {c \in SeqToSet(all_candidates) :
                          ~ScoreRejects(nodes, node, c)})
        S(c)   == score_parent(nodes, node, c)
    IN  IF all_candidates = <<>> THEN None
        ELSE IF shape # NoShape
             THEN ShapeSelectParent(shape, nodes, node, all_candidates, d)
        ELSE IF kept = <<>> THEN Head(all_candidates)
        ELSE ArgMaxFirst(kept, [elem \in SeqToSet(kept) |-> S(elem)])

----------------------------------------------------------------------------
(* tree_builder.py: SpellTreeBuilder, construction and school setup *)

RandomValues == {10, 90}
DrawValues == 0..MaxDraw

\* the builder before __init__ has run
NewBuilder ==
    [pc |-> "init", cfg_shape |-> cfg.shape, shape |-> NoShape,
     nodes |-> <<>>, root_id |-> None, connected |-> {}, available |-> <<>>,
     todo |-> <<>>, cur |-> None, reachable |-> {}, unlockable |-> {},
     unreachable |-> <<>>, pass_num |-> 0, fixed_any |-> FALSE]

\* the shape held after "try: self.shape = get_shape(...) except: print"
ShapeAfterGet(old, name) ==
    LET created == get_shape(name)
    IN  IF created.kind = "instance" THEN created.class ELSE old

\* __init__
ConstructResults(s) ==
    {[s EXCEPT !.pc = "constructed",
               !.shape = ShapeAfterGet(NoShape, s.cfg_shape)]}

\* build_trees: _reinit_for_school with the shape of the school
ReinitResults(s) ==
    {[s EXCEPT !.pc = "school",
               !.cfg_shape = cfg.school_shape,
               !.shape = ShapeAfterGet(s.shape, cfg.school_shape)]}

----------------------------------------------------------------------------
(* tree_builder.py: _build_school_tree, root selection *)

FirstId(S) == CHOOSE i \in S : \A j \in S : i <= j

find_lowest_tier_spell ==
    LET tiers == {t \in DOMAIN TIER_ORDER :
                     \E i \in DOMAIN spells : spells[i].skillLevel = TIER_ORDER[t]}
    IN  IF tiers = {} THEN 1
        ELSE FirstId({i \in DOMAIN spells :
                 spells[i].skillLevel = TIER_ORDER[FirstId(tiers)]})

\* _select_root: the canonical id of the school, else the first vanilla
\* ("0x00...") Novice spell, else the lowest tier spell
select_root ==
    LET canonical == {i \in DOMAIN spells : spells[i].kind = "canonical"}
        vanilla   == {i \in DOMAIN spells : /\ spells[i].kind \in {"canonical", "vanilla"}
                                  /\ spells[i].skillLevel = "Novice"}
    IN  IF cfg.prefer_vanilla_roots /\ canonical # {} THEN FirstId(canonical)
        ELSE IF vanilla # {} THEN FirstId(vanilla)
        ELSE find_lowest_tier_spell

\* keys of the grouping, in order of first appearance in the spell list
RECURSIVE Distinct(_)
Distinct(seq) ==
    IF seq = <<>> THEN <<>>
    ELSE <<Head(seq)>> \o Distinct(FilterSeq(Tail(seq), SeqToSet(seq) \ {Head(seq)}))

GroupedKeys == Distinct([i \in DOMAIN spells |-> spells[i].theme])

Grouped(theme) == FilterSeq(IdSeq, {i \in DOMAIN spells : spells[i].theme = theme})

\* sorted(grouped.keys(), key=len(grouped[t]), reverse=True)
SortedThemes ==
    SortByKey(GroupedKeys,
              [t \in SeqToSet(GroupedKeys) |-> Len(spells) - Len(Grouped(t))],
              0, Len(spells))

\* the spells in the order the loops of _connect_nodes visit them
ConnectOrder ==
    LET themed == FilterSeq(SortedThemes, SeqToSet(SortedThemes) \ {"_unassigned"})
    IN  ConcatAll([k \in DOMAIN themed |-> sort_by_tier(Grouped(themed[k]))])

\* the root is chosen but never marked
BuildStartUnmarked(s) ==
    LET root_id == select_root
        nodes == [i \in DOMAIN spells |-> TreeNodeFromSpell(spells[i])]
    IN  {[s EXCEPT !.pc = "connect", !.nodes = nodes, !.root_id = root_id,
                   !.connected = {root_id},
                   !.available = [d \in 0..Len(spells) |->
                                     IF d = 0 THEN <<root_id>> ELSE <<>>],
                   !.todo = ConnectOrder]}

BuildStartResults(s) ==
    LET root_id == select_root
        nodes == [i \in DOMAIN spells |->
                    IF i = root_id
                    THEN [TreeNodeFromSpell(spells[i]) EXCEPT !.depth = 0,
                                                              !.is_root = TRUE]
                    ELSE TreeNodeFromSpell(spells[i])]
    IN  {[s EXCEPT !.pc = "connect", !.nodes = nodes, !.root_id = root_id,
                   !.connected = {root_id},
                   !.available = [d \in 0..Len(spells) |->
                                     IF d = 0 THEN <<root_id>> ELSE <<>>],
                   !.todo = ConnectOrder]}

----------------------------------------------------------------------------
(* tree_builder.py: _connect_nodes, _process_unassigned *)

Append2(available, d, id) ==
    [available EXCEPT ![d] = Append(@, id)]

\* one iteration of "for spell in tier_sorted"; d is the draw the shape uses
ConnectSpellResults(s, d) ==
    LET form_id    == Head(s.todo)
        tier_depth == tier_to_depth(s.nodes[form_id].tier)
        parent     == find_parent(s.shape, s.nodes, s.available, form_id,
                                  tier_depth, d)
        linked     == link_nodes(s.nodes, parent, form_id)
        rest       == [s EXCEPT !.todo = Tail(s.todo)]
    IN  IF form_id \in s.connected \/ parent = None THEN {rest}
        ELSE {[rest EXCEPT
                 !.nodes = linked,
                 !.connected = @ \cup {form_id},
                 !.available =
                     IF NumChildren(linked, form_id) < cfg.max_children_per_node
                     THEN Append2(@, linked[form_id].depth, form_id) ELSE @,
                 !.pc = IF s.pc = "connect" /\ tier_depth >= cfg.convergence_at_tier
                        THEN "converge" ELSE s.pc,
                 !.cur = IF s.pc = "connect" /\ tier_depth >= cfg.convergence_at_tier
                         THEN form_id ELSE None]}

\* _process_unassigned starts when the themes are exhausted
UnassignedStartResults(s) ==
    {[s EXCEPT !.pc = "unassigned",
               !.todo = sort_by_tier(Grouped("_unassigned"))]}

----------------------------------------------------------------------------
(* tree_builder.py: _maybe_add_convergence *)

TierMultiplier(tier_depth) ==       \* tier_multipliers, in tenths
    CASE tier_depth = 0 -> 5
      [] tier_depth = 1 -> 10
      [] tier_depth = 2 -> 15
      [] tier_depth = 3 -> 20
      [] tier_depth = 4 -> 100
      [] OTHER -> 10

TierMaxPrereqs(tier_depth) ==
    CASE tier_depth = 0 -> 1
      [] tier_depth = 1 -> 2
      [] tier_depth = 2 -> 2
      [] tier_depth = 3 -> 3
      [] tier_depth = 4 -> 4
      [] OTHER -> 2

\* candidates of the node's own theme count as well
ConvergenceCandidatesAnyTheme(nodes, available, node, reachable, depth) ==
    FilterSeq(Avail(available, depth),
        {p \in SeqToSet(Avail(available, depth)) :
            /\ p \notin nodes[node].prerequisites
            /\ p \in reachable
            /\ ~is_descendant(p, node, nodes)})

\* the list "different" at one depth
ConvergenceCandidates(nodes, available, node, reachable, depth) ==
    FilterSeq(Avail(available, depth),
        {p \in SeqToSet(Avail(available, depth)) :
            /\ nodes[p].theme # nodes[node].theme
            /\ p \notin nodes[node].prerequisites
            /\ p \in reachable
            /\ ~is_descendant(p, node, nodes)})

\* the depth of the node and the depths below it are looked at as well
ConvergencePickAnyDepth(nodes, available, node, reachable) ==
    LET depths == {dd \in DOMAIN available :
                      ConvergenceCandidates(nodes, available, node, reachable, dd)
                          # <<>>}
    IN  IF depths = {} THEN <<>>
        ELSE ConvergenceCandidates(nodes, available, node, reachable,
                 CHOOSE dd \in depths : \A e \in depths : dd >= e)

\* for depth in range(node.depth - 1, -1, -1): the first depth with candidates
ConvergencePick(nodes, available, node, reachable) ==
    LET depths == {dd \in 0..(nodes[node].depth - 1) :
                      ConvergenceCandidates(nodes, available, node, reachable, dd)
                          # <<>>}
    IN  IF depths = {} THEN <<>>
        ELSE ConvergenceCandidates(nodes, available, node, reachable,
                 CHOOSE dd \in depths : \A e \in depths : dd >= e)

\* for _ in range(prereqs_to_add); ds are the draws of random.choice
RECURSIVE ConvergenceLoop(_, _, _, _, _, _, _)
ConvergenceLoop(nodes, available, node, reachable, max_prereqs, k, ds) ==
    LET different == ConvergencePick(nodes, available, node, reachable)
        extra     == RandomChoice(different, Head(ds))
    IN  IF k = 0 \/ NumPrereqs(nodes, node) >= max_prereqs THEN nodes
        ELSE IF different = <<>>
             THEN ConvergenceLoop(nodes, available, node, reachable,
                                  max_prereqs, k - 1, ds)
        ELSE ConvergenceLoop(
                 add_child(add_prerequisite(nodes, node, extra), extra, node),
                 available, node, reachable, max_prereqs, k - 1, Tail(ds))

\* r is the value of random.random() in hundredths
ConvergenceOutcome(s, r, ds) ==
    LET node       == s.cur
        tier_depth == tier_to_depth(s.nodes[node].tier)
        max_prereqs == TierMaxPrereqs(tier_depth)
        effective_chance ==
            Min2(100, (cfg.convergence_chance * TierMultiplier(tier_depth)) \div 10)
        have  == NumPrereqs(s.nodes, node)
        force_convergence == \/ (tier_depth >= 3 /\ have < 2)
                             \/ (tier_depth >= 4 /\ have < 3)
        prereqs_to_add == IF tier_depth >= 4 THEN Max2(1, 3 - have)
                          ELSE IF tier_depth >= 3 THEN Max2(1, 2 - have)
                          ELSE 1
        reachable == get_reachable_from_root(s.nodes, s.root_id)
        back == [s EXCEPT !.pc = "connect", !.cur = None]
    IN  IF (~force_convergence /\ r > effective_chance) \/ have >= max_prereqs
        THEN back
        ELSE [back EXCEPT !.nodes =
                 ConvergenceLoop(s.nodes, s.available, node, reachable,
                                 max_prereqs, prereqs_to_add, ds)]

DrawSeqs == [1..2 -> DrawValues]

MaybeAddConvergenceUnseeded(s, r, ds) ==
    {ConvergenceOutcome(s, r2, ds2) : r2 \in RandomValues, ds2 \in DrawSeqs}

\* the random module is seeded in __init__: the outcome is the one of the
\* draws r, ds of the stream
MaybeAddConvergenceResults(s, r, ds) == {ConvergenceOutcome(s, r, ds)}

----------------------------------------------------------------------------
(* tree_builder.py: _connect_orphans *)

NodeSeq(nodes) == [i \in 1..Cardinality(DOMAIN nodes) |-> i]

\* the traversal from the root, and the orphans sorted by tier
OrphansStartResults(s) ==
    LET connected == get_reachable_from_root(s.nodes, s.root_id)
        orphans   == FilterSeq(NodeSeq(s.nodes), DOMAIN s.nodes \ connected)
    IN  {[s EXCEPT !.pc = "orphans", !.connected = connected,
                   !.todo = sort_by_tier(orphans)]}

\* best: a connected node with capacity at a depth below the tier of the
\* orphan, the first one with the fewest children
OrphanBest(nodes, connected, tier_depth) ==
    LET proper == FilterSeq(NodeSeq(nodes),
                     {n \in DOMAIN nodes :
                         /\ n \in connected
                         /\ NumChildren(nodes, n) < cfg.max_children_per_node
                         /\ nodes[n].depth < tier_depth})
        K(n)   == NumChildren(nodes, n)
    IN  IF proper = <<>> THEN None ELSE ArgMinFirst(proper, [elem \in SeqToSet(proper) |-> K(elem)])

\* "find ANY connected node at lower depth": for d in range(tier_depth-1,-1,-1)
OrphanAnyLower(nodes, connected, tier_depth) ==
    LET At(d) == {n \in DOMAIN nodes :
                     /\ n \in connected /\ nodes[n].depth = d
                     /\ NumChildren(nodes, n) < cfg.max_children_per_node}
        depths == {d \in 0..(tier_depth - 1) : At(d) # {}}
    IN  IF depths = {} THEN None
        ELSE FirstId(At(CHOOSE d \in depths : \A e \in depths : d >= e))

\* the last resort: the root for Novice/Apprentice, else any connected node
\* at a lower depth, else the root
OrphanLastResort(nodes, connected, root_id, tier_depth) ==
    LET lower == {n \in DOMAIN nodes :
                     n \in connected /\ nodes[n].depth < tier_depth}
    IN  IF tier_depth <= 1 THEN root_id
        ELSE IF lower # {} THEN FirstId(lower)
        ELSE root_id

OrphanParent(nodes, connected, root_id, tier_depth) ==
    IF OrphanBest(nodes, connected, tier_depth) # None
    THEN OrphanBest(nodes, connected, tier_depth)
    ELSE IF OrphanAnyLower(nodes, connected, tier_depth) # None
    THEN OrphanAnyLower(nodes, connected, tier_depth)
    ELSE OrphanLastResort(nodes, connected, root_id, tier_depth)

\* every last resort prints the warning
OrphanLogAlways(nodes, connected, root_id, tier_depth) ==
    LET lower == {n \in DOMAIN nodes :
                     n \in connected /\ nodes[n].depth < tier_depth}
    IN  IF OrphanBest(nodes, connected, tier_depth) # None
           \/ OrphanAnyLower(nodes, connected, tier_depth) # None
        THEN "none"
        ELSE IF lower # {} THEN "WARNING"
        ELSE "ERROR"

\* what the attachment of one orphan prints: nothing, the WARNING of the
\* high-tier orphan, or the ERROR of the orphan forced to the root as well
OrphanLog(nodes, connected, root_id, tier_depth) ==
    LET lower == {n \in DOMAIN nodes :
                     n \in connected /\ nodes[n].depth < tier_depth}
    IN  IF OrphanBest(nodes, connected, tier_depth) # None
           \/ OrphanAnyLower(nodes, connected, tier_depth) # None
        THEN "none"
        ELSE IF tier_depth <= 1 THEN "none"
        ELSE IF lower # {} THEN "WARNING"
        ELSE "ERROR"

\* the orphan records its parent, the parent does not record the orphan
ConnectOrphanPrereqOnly(s) ==
    LET orphan     == Head(s.todo)
        tier_depth == tier_to_depth(s.nodes[orphan].tier)
        best       == OrphanParent(s.nodes, s.connected, s.root_id, tier_depth)
    IN  {[s EXCEPT !.nodes = [add_prerequisite(s.nodes, orphan, best)
                                 EXCEPT ![orphan].depth = s.nodes[best].depth + 1],
                   !.connected = @ \cup {orphan},
                   !.todo = Tail(s.todo)]}

\* one iteration of "for orphan_spell in ..."
ConnectOrphanResults(s) ==
    LET orphan     == Head(s.todo)
        tier_depth == tier_to_depth(s.nodes[orphan].tier)
        best       == OrphanParent(s.nodes, s.connected, s.root_id, tier_depth)
    IN  {[s EXCEPT !.nodes = link_nodes(s.nodes, best, orphan),
                   !.connected = @ \cup {orphan},
                   !.todo = Tail(s.todo)]}

----------------------------------------------------------------------------
(* tree_builder.py: _enforce_high_tier_convergence *)

\* the pass starts from an empty reachable set
EnforceStartNoReachable(s) ==
    {[s EXCEPT !.pc = "enforce", !.reachable = {}, !.todo = NodeSeq(s.nodes)]}

EnforceStartResults(s) ==
    {[s EXCEPT !.pc = "enforce",
               !.reachable = get_reachable_from_root(s.nodes, s.root_id),
               !.todo = NodeSeq(s.nodes)]}

MinPrereqs(tier_depth) ==
    IF tier_depth >= 4 THEN 3 ELSE IF tier_depth >= 3 THEN 2 ELSE 0

\* candidates without the depth and descendant guards
EnforceCandidatesUnguarded(nodes, fid, reachable) ==
    FilterSeq(NodeSeq(nodes),
        {cand_id \in DOMAIN nodes :
            /\ cand_id # fid
            /\ cand_id \notin nodes[fid].prerequisites
            /\ cand_id \in reachable})

\* the candidates of one node, in table order
EnforceCandidates(nodes, fid, reachable) ==
    FilterSeq(NodeSeq(nodes),
        {cand_id \in DOMAIN nodes :
            /\ cand_id # fid
            /\ cand_id \notin nodes[fid].prerequisites
            /\ cand_id \in reachable
            /\ nodes[cand_id].depth < nodes[fid].depth
            /\ ~is_descendant(cand_id, fid, nodes)})

\* candidates.sort(key=(-different_theme, -depth))
EnforceSorted(nodes, fid, candidates) ==
    LET maxd == Cardinality(DOMAIN nodes) + 1
    IN  SortByKey(candidates,
            [c \in SeqToSet(candidates) |->
                (IF nodes[c].theme # nodes[fid].theme THEN 0 ELSE maxd + 1)
                + (maxd - nodes[c].depth)],
            0, 2 * maxd + 1)

RECURSIVE AddPrereqs(_, _, _)
AddPrereqs(nodes, fid, cands) ==
    IF cands = <<>> THEN nodes
    ELSE AddPrereqs(add_child(add_prerequisite(nodes, fid, Head(cands)),
                              Head(cands), fid),
                    fid, Tail(cands))

\* one iteration of "for fid, node in nodes.items()"
EnforceNodeResults(s) ==
    LET fid        == Head(s.todo)
        tier_depth == tier_to_depth(s.nodes[fid].tier)
        min_prereqs == MinPrereqs(tier_depth)
        current    == NumPrereqs(s.nodes, fid)
        needed     == min_prereqs - current
        sorted     == EnforceSorted(s.nodes, fid,
                          EnforceCandidates(s.nodes, fid, s.reachable))
        chosen     == SubSeq(sorted, 1, Min2(needed, Len(sorted)))
        rest       == [s EXCEPT !.todo = Tail(s.todo)]
    IN  IF fid = s.root_id \/ tier_depth < 3 \/ current >= min_prereqs
        THEN {rest}
        ELSE {[rest EXCEPT !.nodes = AddPrereqs(s.nodes, fid, chosen)]}

----------------------------------------------------------------------------
(* tree_builder.py: _ensure_all_reachable *)

max_passes == 10

\* the head of "for pass_num in range(max_passes)": simulate the unlocks and
\* return when nothing is unreachable; after the last pass, the final check
RepairPassResults(s) ==
    LET unlockable  == simulate_unlocks(s.nodes, s.root_id)
        unreachable == FilterSeq(NodeSeq(s.nodes), DOMAIN s.nodes \ unlockable)
        clean == [s EXCEPT !.todo = <<>>, !.cur = None, !.reachable = {},
                           !.connected = {}, !.available = <<>>]
    IN  IF s.pass_num >= max_passes \/ unreachable = <<>>
        THEN {[clean EXCEPT !.pc = "done"]}
        ELSE {[clean EXCEPT !.pc = "fix", !.unlockable = unlockable,
                            !.unreachable = unreachable, !.todo = unreachable,
                            !.fixed_any = FALSE]}

\* any other unlockable node of the least depth, full or not
BestParentsAnyCapacity(nodes, unlockable, fid) ==
    LET cands == unlockable \ {fid}
    IN  {u \in cands : \A v \in cands : nodes[u].depth <= nodes[v].depth}

\* the values best_parent can take: "for unlockable_id in unlockable" walks a
\* set of strings, so any candidate of the least depth can come first
BestParents(nodes, unlockable, fid) ==
    LET cands == {u \in unlockable :
                     /\ u # fid
                     /\ NumChildren(nodes, u) < cfg.max_children_per_node}
    IN  {u \in cands : \A v \in cands : nodes[u].depth <= nodes[v].depth}

\* the blocking prerequisites keep fid among their children
ReplaceBlockingKeepChildren(nodes, fid, blocking, best_parent) ==
    LET replaced == [nodes EXCEPT
                        ![fid].prerequisites = (@ \ blocking) \cup {best_parent}]
        added == [replaced EXCEPT ![best_parent].children = @ \cup {fid}]
    IN  [added EXCEPT ![fid].depth = added[best_parent].depth + 1]

\* replace the blocking prerequisites of fid by best_parent
ReplaceBlocking(nodes, fid, blocking, best_parent) ==
    LET removed == [n \in DOMAIN nodes |->
                       IF n \in blocking
                       THEN [nodes[n] EXCEPT !.children = @ \ {fid}]
                       ELSE nodes[n]]
        replaced == [removed EXCEPT
                        ![fid].prerequisites = (@ \ blocking) \cup {best_parent}]
        added == [replaced EXCEPT ![best_parent].children = @ \cup {fid}]
    IN  [added EXCEPT ![fid].depth = added[best_parent].depth + 1]

\* one iteration of "for fid in unreachable"
RepairFixResults(s) ==
    LET fid      == Head(s.todo)
        blocking == s.nodes[fid].prerequisites \ s.unlockable
        best     == BestParents(s.nodes, s.unlockable, fid)
        rest     == [s EXCEPT !.todo = Tail(s.todo)]
    IN  IF blocking = {} \/ best = {} THEN {rest}
        ELSE {[rest EXCEPT !.nodes = ReplaceBlocking(s.nodes, fid, blocking, bp),
                           !.fixed_any = TRUE] : bp \in best}

\* the pass fixed something: next pass
RepairNextPassResults(s) ==
    {[s EXCEPT !.pc = "repair", !.pass_num = @ + 1]}

\* connect one unreachable node directly to the root
LinkToRoot(nodes, root_id, fid) ==
    LET cleared == [n \in DOMAIN nodes |->
                       IF n \in nodes[fid].prerequisites
                       THEN [nodes[n] EXCEPT !.children = @ \ {fid}]
                       ELSE nodes[n]]
    IN  [cleared EXCEPT ![fid].prerequisites = {root_id},
                        ![fid].depth = 1,
                        ![root_id].children = @ \cup {fid}]

RECURSIVE AggressiveFix(_, _, _)
AggressiveFix(nodes, root_id, unreachable) ==
    IF unreachable = <<>> THEN nodes
    ELSE IF Head(unreachable) = root_id
         THEN AggressiveFix(nodes, root_id, Tail(unreachable))
         ELSE AggressiveFix(LinkToRoot(nodes, root_id, Head(unreachable)),
                            root_id, Tail(unreachable))

\* the pass fixed nothing: aggressive fix, break, final check
RepairAggressiveResults(s) ==
    {[s EXCEPT !.pc = "done",
               !.nodes = AggressiveFix(s.nodes, s.root_id, s.unreachable)]}

----------------------------------------------------------------------------
(* Inputs of a build *)

TierChoices == {"Novice", "Adept", "Master"}
ThemeChoices == {"fire", "frost"}
ShapeChoices == {Name("cascade"), Name("explosion")}
SchoolShapeChoices == {Name("linear"), Name("explosion")}
MaxChildrenChoices == {1, 2}
\* <<strict_tier_ordering, allow_same_tier_links>>
TierRuleChoices == {<<TRUE, TRUE>>, <<TRUE, FALSE>>, <<FALSE, TRUE>>}

\* The spells of one school.  Themes are named in order of appearance and the
\* spells come by rising tier, but for the last one, which can be of any tier,
\* may be left unassigned by the theme discovery, or may carry the canonical
\* root id of the school (the others come from mods).
SpellLists ==
    {sp \in [Ids -> [skillLevel : TierChoices,
                     theme : ThemeChoices \cup {"_unassigned"},
                     kind : {"mod", "canonical"}]] :
        /\ \A i \in Ids : i < NumItems =>
               sp[i].kind = "mod" /\ sp[i].theme # "_unassigned"
        /\ \A i, j \in Ids : i < j /\ j < NumItems =>
               TierIndex(sp[i].skillLevel) <= TierIndex(sp[j].skillLevel)
        /\ sp[NumItems].kind = "canonical" => sp[NumItems].theme = "fire"
        /\ sp[1].theme = "fire"}

\* a school shape is configured over a registered global shape, or both are
\* unknown; the tier rules vary where a node can have two children
ConfigChoices ==
    {c \in ShapeChoices \X SchoolShapeChoices \X MaxChildrenChoices \X TierRuleChoices :
        /\ RegistryHas(ShapeRegistryPlugins, c[2])
               => RegistryHas(ShapeRegistryPlugins, c[1])
        /\ c[3] = 1 => c[4] = <<TRUE, TRUE>>}

Configs ==
    {[shape |-> c[1], school_shape |-> c[2], max_children_per_node |-> c[3],
      strict_tier_ordering |-> c[4][1], allow_same_tier_links |-> c[4][2],
      convergence_chance |-> 40, convergence_at_tier |-> 2,
      prefer_vanilla_roots |-> TRUE] : c \in ConfigChoices}

NoRegistryCall == [kind |-> "none"]
EmptyRegistry == [n \in {} |-> NoClass]

Init ==
    /\ spells \in SpellLists
    /\ cfg \in Configs
    /\ b = NewBuilder
    /\ twin = NewBuilder
    /\ plugins = EmptyRegistry
    /\ result = NoRegistryCall

----------------------------------------------------------------------------
(* Actions of a build; the twin takes the same step with the same draws *)

Lockstep(t, t2) ==
    /\ b' = t
    /\ twin' = t2
    /\ UNCHANGED <<spells, cfg, plugins, result>>

InStep(pcs) == b.pc \in pcs /\ twin.pc = b.pc

Construct ==
    /\ InStep({"init"})
    /\ \E t \in ConstructResults(b), t2 \in ConstructResults(twin) : Lockstep(t, t2)

ReinitForSchool ==
    /\ InStep({"constructed"})
    /\ \E t \in ReinitResults(b), t2 \in ReinitResults(twin) : Lockstep(t, t2)

BuildSchoolTree ==
    /\ InStep({"school"})
    /\ \E t \in BuildStartResults(b), t2 \in BuildStartResults(twin) :
          Lockstep(t, t2)

ConnectSpell ==
    /\ InStep({"connect"})
    /\ b.todo # <<>> /\ twin.todo # <<>>
    /\ \E d \in DrawValues :
          \E t \in ConnectSpellResults(b, d), t2 \in ConnectSpellResults(twin, d) :
              Lockstep(t, t2)

MaybeAddConvergence ==
    /\ InStep({"converge"})
    /\ \E r \in RandomValues, ds \in DrawSeqs :
          \E t \in MaybeAddConvergenceResults(b, r, ds),
             t2 \in MaybeAddConvergenceResults(twin, r, ds) : Lockstep(t, t2)

ProcessUnassignedStart ==
    /\ InStep({"connect"})
    /\ b.todo = <<>> /\ twin.todo = <<>>
    /\ \E t \in UnassignedStartResults(b), t2 \in UnassignedStartResults(twin) :
          Lockstep(t, t2)

ProcessUnassigned ==
    /\ InStep({"unassigned"})
    /\ b.todo # <<>> /\ twin.todo # <<>>
    /\ \E d \in DrawValues :
          \E t \in ConnectSpellResults(b, d), t2 \in ConnectSpellResults(twin, d) :
              Lockstep(t, t2)

ConnectOrphansStart ==
    /\ InStep({"unassigned"})
    /\ b.todo = <<>> /\ twin.todo = <<>>
    /\ \E t \in OrphansStartResults(b), t2 \in OrphansStartResults(twin) :
          Lockstep(t, t2)

ConnectOrphan ==
    /\ InStep({"orphans"})
    /\ b.todo # <<>> /\ twin.todo # <<>>
    /\ \E t \in ConnectOrphanResults(b), t2 \in ConnectOrphanResults(twin) :
          Lockstep(t, t2)

EnforceHighTierConvergenceStart ==
    /\ InStep({"orphans"})
    /\ b.todo = <<>> /\ twin.todo = <<>>
    /\ \E t \in EnforceStartResults(b), t2 \in EnforceStartResults(twin) :
          Lockstep(t, t2)

EnforceHighTierConvergence ==
    /\ InStep({"enforce"})
    /\ b.todo # <<>> /\ twin.todo # <<>>
    /\ \E t \in EnforceNodeResults(b), t2 \in EnforceNodeResults(twin) :
          Lockstep(t, t2)

EnsureAllReachable ==
    /\ InStep({"enforce"})
    /\ b.todo = <<>> /\ twin.todo = <<>>
    /\ \E t \in RepairPassResults(b), t2 \in RepairPassResults(twin) :
          Lockstep(t, t2)

Next ==
    \/ Construct
    \/ ReinitForSchool
    \/ BuildSchoolTree
    \/ ConnectSpell
    \/ MaybeAddConvergence
    \/ ProcessUnassignedStart
    \/ ProcessUnassigned
    \/ ConnectOrphansStart
    \/ ConnectOrphan
    \/ EnforceHighTierConvergenceStart
    \/ EnforceHighTierConvergence
    \/ EnsureAllReachable

Spec == Init /\ [][Next]_vars

----------------------------------------------------------------------------
(* _ensure_all_reachable beyond its first check, and on a given node table *)

RepairStep(t) ==
    /\ b' = t
    /\ UNCHANGED <<spells, cfg, twin, plugins, result>>

RepairPass ==
    /\ b.pc = "repair"
    /\ \E t \in RepairPassResults(b) : RepairStep(t)

RepairFix ==
    /\ b.pc = "fix" /\ b.todo # <<>>
    /\ \E t \in RepairFixResults(b) : RepairStep(t)

RepairNextPass ==
    /\ b.pc = "fix" /\ b.todo = <<>> /\ b.fixed_any
    /\ \E t \in RepairNextPassResults(b) : RepairStep(t)

RepairAggressive ==
    /\ b.pc = "fix" /\ b.todo = <<>> /\ ~b.fixed_any
    /\ \E t \in RepairAggressiveResults(b) : RepairStep(t)

NextRepair == RepairPass \/ RepairFix \/ RepairNextPass \/ RepairAggressive

\* a node table from its prerequisites and depths: children is the transpose
TableOf(pre, dep) ==
    [i \in DOMAIN pre |->
        [tier |-> "Novice", theme |-> "fire", depth |-> dep[i],
         is_root |-> (i = 1),
         children |-> {j \in DOMAIN pre : i \in pre[j]},
         prerequisites |-> pre[i]]]

\* any prerequisites (cycles, self loops, none at all) on NumItems nodes
SmallTables ==
    {TableOf(pre, dep) :
        pre \in {f \in [Ids -> SUBSET Ids] : f[1] = {}},
        dep \in {g \in [Ids -> 0..2] :
                    g[1] = 0 /\ \A i \in Ids : i > 1 => g[i] > 0}}

\* k nodes that are their own prerequisite, beside the root
SelfLoopTable(k) ==
    TableOf([i \in 1..(k + 1) |-> IF i = 1 THEN {} ELSE {i}],
            [i \in 1..(k + 1) |-> IF i = 1 THEN 0 ELSE 1])

RepairTables == SmallTables \cup {SelfLoopTable(k) : k \in 1..MaxChain}

RepairConfigs ==
    {[shape |-> Name("linear"), school_shape |-> Name("linear"),
      max_children_per_node |-> mc,
      strict_tier_ordering |-> TRUE, allow_same_tier_links |-> TRUE,
      convergence_chance |-> 40, convergence_at_tier |-> 2,
      prefer_vanilla_roots |-> TRUE] : mc \in MaxChildrenChoices}

InitRepair ==
    /\ spells = <<>>
    /\ cfg \in RepairConfigs
    /\ \E tbl \in RepairTables :
          b = [NewBuilder EXCEPT !.pc = "repair", !.nodes = tbl, !.root_id = 1]
    /\ twin = NewBuilder
    /\ plugins = EmptyRegistry
    /\ result = NoRegistryCall

SpecRepair == InitRepair /\ [][NextRepair]_vars

\* builds, and repairs of given tables
InitAll == Init \/ InitRepair
NextAll == Next \/ NextRepair
SpecAll == InitAll /\ [][NextAll]_vars

----------------------------------------------------------------------------
(* The six-item example: Novice A, B, C and Apprentice D, E, F *)

ScenarioThemes == <<"fire", "frost", "shock">>

\* A..F are the ids 1..6; A is a mod spell, a vanilla Novice spell or the
\* canonical root of the school
ScenarioSpells(kind) ==
    [i \in 1..(2 * Len(ScenarioThemes)) |->
        [skillLevel |-> IF i <= Len(ScenarioThemes) THEN "Novice"
                        ELSE "Apprentice",
         theme |-> ScenarioThemes[((i - 1) % Len(ScenarioThemes)) + 1],
         kind |-> IF i = 1 THEN kind ELSE "mod"]]

\* shape linear, max_children_per_node 2, convergence_chance 0; the settings
\* the example leaves open take each of their values
ScenarioConfigs ==
    {[shape |-> sh, school_shape |-> Name("linear"),
      max_children_per_node |-> 2,
      strict_tier_ordering |-> tr[1], allow_same_tier_links |-> tr[2],
      convergence_chance |-> 0, convergence_at_tier |-> at,
      prefer_vanilla_roots |-> pv] :
        sh \in {Name("linear"), Name("cascade")}, tr \in TierRuleChoices,
        at \in {1, 2}, pv \in BOOLEAN}

InitScenario ==
    /\ \E kind \in {"mod", "vanilla", "canonical"} : spells = ScenarioSpells(kind)
    /\ cfg \in ScenarioConfigs
    /\ b = NewBuilder
    /\ twin = NewBuilder
    /\ plugins = EmptyRegistry
    /\ result = NoRegistryCall

\* no spell of the example is unassigned
NextScenario ==
    \/ Construct
    \/ ReinitForSchool
    \/ BuildSchoolTree
    \/ ConnectSpell
    \/ MaybeAddConvergence
    \/ ProcessUnassignedStart
    \/ ConnectOrphansStart
    \/ ConnectOrphan
    \/ EnforceHighTierConvergenceStart
    \/ EnforceHighTierConvergence
    \/ EnsureAllReachable

SpecScenario == InitScenario /\ [][NextScenario]_vars

----------------------------------------------------------------------------
(* _connect_orphans on a given tree with unconnected nodes *)

OrphanTiers == {"Novice", "Apprentice", "Adept"}

\* the depth of n under the parents par, -1 when no path of parents of at
\* most fuel steps leads to the root
RECURSIVE DepthUnder(_, _, _, _)
DepthUnder(par, root_id, n, fuel) ==
    IF n = root_id THEN 0
    ELSE IF fuel = 0 \/ n \notin DOMAIN par THEN 0 - 1
    ELSE LET up == DepthUnder(par, root_id, par[n], fuel - 1)
         IN  IF up < 0 THEN up ELSE up + 1

\* one node more than the spells of a build
OrphanIds == 1..(NumItems + 1)

\* a tree of link_nodes edges on the nodes of par and the root, all Novice;
\* the other nodes are as TreeNode.from_spell made them, of the tiers ot
OrphanTable(par, root_id, ot) ==
    [i \in OrphanIds |->
        [tier |-> IF i \in DOMAIN ot THEN ot[i] ELSE "Novice",
         theme |-> "fire",
         depth |-> IF i \in DOMAIN par
                   THEN DepthUnder(par, root_id, i, NumItems + 1) ELSE 0,
         is_root |-> (i = root_id),
         children |-> {j \in DOMAIN par : par[j] = i},
         prerequisites |-> IF i \in DOMAIN par THEN {par[i]} ELSE {}]]

OrphanTablesOn(linked) ==
    {OrphanTable(par, 1, ot) :
        par \in {f \in [linked -> linked \cup {1}] :
                    \A n \in linked : DepthUnder(f, 1, n, NumItems + 1) > 0},
        ot \in [OrphanIds \ (linked \cup {1}) -> OrphanTiers]}

OrphanTables ==
    UNION {OrphanTablesOn(linked) :
              linked \in (SUBSET (OrphanIds \ {1})) \ {OrphanIds \ {1}}}

InitOrphans ==
    /\ cfg \in RepairConfigs
    /\ \E tbl \in OrphanTables :
          /\ spells = [i \in OrphanIds |-> [skillLevel |-> tbl[i].tier,
                                            theme |-> "fire", kind |-> "mod"]]
          /\ b = [NewBuilder EXCEPT !.pc = "unassigned", !.nodes = tbl,
                                    !.root_id = 1]
    /\ twin = NewBuilder
    /\ plugins = EmptyRegistry
    /\ result = NoRegistryCall

\* the traversal and the sorted orphan list
OrphansStart ==
    /\ b.pc = "unassigned"
    /\ \E t \in OrphansStartResults(b) : RepairStep(t)

\* one orphan; result holds what the iteration printed
AttachOrphan ==
    /\ b.pc = "orphans" /\ b.todo # <<>>
    /\ \E t \in ConnectOrphanResults(b) : b' = t
    /\ result' = [kind |-> "orphan", orphan |-> Head(b.todo),
                  log |-> OrphanLog(b.nodes, b.connected, b.root_id,
                              tier_to_depth(b.nodes[Head(b.todo)].tier))]
    /\ UNCHANGED <<spells, cfg, twin, plugins>>

NextOrphans == OrphansStart \/ AttachOrphan

SpecOrphans == InitOrphans /\ [][NextOrphans]_vars

----------------------------------------------------------------------------
(* The registry under registrations and create calls *)

RegistryNames == [base : {"linear", "cascade", "explosion"}, upper : BOOLEAN]
RegistryClasses == {"LinearShape", "CascadeShape"}

InitRegistry ==
    /\ spells = <<>>
    /\ cfg = [shape |-> Name("linear")]
    /\ b = [NewBuilder EXCEPT !.pc = "registry"]
    /\ twin = [NewBuilder EXCEPT !.pc = "registry"]
    /\ plugins = EmptyRegistry
    /\ result = NoRegistryCall

Register ==
    \E name \in RegistryNames, plugin_class \in RegistryClasses :
        /\ plugins' = RegistryRegister(plugins, name, plugin_class)
        /\ result' = [kind |-> "registered", name |-> name, class |-> plugin_class]
        /\ UNCHANGED <<spells, cfg, b, twin>>

Create ==
    \E name \in RegistryNames :
        /\ result' = RegistryCreate(plugins, name)
        /\ UNCHANGED <<spells, cfg, b, twin, plugins>>

NextRegistry == Register \/ Create

SpecRegistry == InitRegistry /\ [][NextRegistry]_vars

----------------------------------------------------------------------------
(* select_parent of every shape on given candidates *)

JitterValues == {0 - 20, 20}

\* k children, as ids outside the table
SomeChildren(k) == {100 + i : i \in 1..k}

\* a candidate holds no child, one less than the bound of the shape, or is full
ChildCounts(shape) == {0, ShapeMaxChildren(shape) - 1, ShapeMaxChildren(shape)}

\* a candidate at position i: the list comes in depth order, the root first
CandidateChoices(shape, i) ==
    [tier : {"Novice"}, theme : ThemeChoices,
     depth : IF i = 1 THEN {0} ELSE IF i = 2 THEN {1} ELSE {1, 2},
     is_root : {i = 1},
     children : {SomeChildren(n) : n \in ChildCounts(shape)},
     prerequisites : {{}}]

\* the node to place
TargetChoices ==
    {[tier |-> tier, theme |-> "fire", depth |-> tier_to_depth(tier),
      is_root |-> FALSE, children |-> {}, prerequisites |-> {}] :
        tier \in {"Apprentice", "Adept"}}

RECURSIVE CandidateSeqs(_, _)
\* the lists of k candidates
CandidateSeqs(shape, k) ==
    IF k = 0 THEN {<<>>}
    ELSE {Append(cs, c) : cs \in CandidateSeqs(shape, k - 1),
                          c \in CandidateChoices(shape, k)}

\* candidates 1..k and the node to place at k + 1
ShapeTables(shape, k) ==
    {Append(cs, tg) : cs \in CandidateSeqs(shape, k), tg \in TargetChoices}

\* the clusters a CloudShape instance has recorded
ClusterChoices(shape, k) ==
    IF shape = "CloudShape"
    THEN {<<{}, {}>>, <<1..k, {}>>, <<1..k, 1..k>>, <<1..k, {k}>>}
    ELSE {<<{}, {}>>}

InitShapes ==
    /\ spells = <<>>
    /\ cfg = [shape |-> Name("linear")]
    /\ twin = NewBuilder
    /\ plugins = ShapeRegistryPlugins
    /\ result = NoRegistryCall
    /\ \E shape \in ShapeClasses, k \in 0..NumItems :
          \E t \in ShapeTables(shape, k), cl \in ClusterChoices(shape, k) :
              b = [pc |-> "select", shape |-> shape, nodes |-> t,
                   node |-> k + 1, candidates |-> [i \in 1..k |-> i],
                   clustered |-> cl[1], roomy |-> cl[2]]

\* the draws select_parent of the shape takes from its generator
ShapeDraws(shape, k) ==
    {[d |-> d, jitter |-> j, r |-> r, clustered |-> b.clustered, roomy |-> b.roomy] :
        d \in IF shape \in {"LinearShape", "SpikyShape", "CloudShape"}
              THEN DrawValues ELSE {0},
        j \in IF shape = "OrganicShape"
              THEN {[i \in 1..k |-> v] : v \in JitterValues}
                   \cup {[i \in 1..k |-> IF i = 1 THEN 20 ELSE 0 - 20]}
              ELSE {[i \in 1..k |-> 20]},
        r \in IF shape = "OrganicShape" THEN RandomValues ELSE {90}}

SelectParent ==
    /\ b.pc = "select"
    /\ \E dr \in ShapeDraws(b.shape, Len(b.candidates)) :
          /\ result' = [kind |-> "selected",
                        parent |-> SelectParentOf(b.shape, b.nodes, b.node,
                                                  b.candidates, dr)]
          /\ b' = [b EXCEPT !.pc = "selected"]
    /\ UNCHANGED <<spells, cfg, twin, plugins>>

NextShapes == SelectParent

SpecShapes == InitShapes /\ [][NextShapes]_vars

----------------------------------------------------------------------------
(* growth/branching_energy.py: BranchingEnergy *)

\* energies are counted in eighths: the default energy_to_branch of 1.0
One == 8

\* the outcome of a call: a returned value or a raised exception
Returned(v) == [raised |-> FALSE, value |-> v]
Raised(e) == [raised |-> TRUE, value |-> e]

ZeroDivisionError == Raised("ZeroDivisionError")

PathNodes == {"root", "n1", "n2"}

\* d[k] = v of a dict
Put(d, k, v) == [n \in DOMAIN d \cup {k} |-> IF n = k THEN v ELSE d[n]]

\* __init__: no path is tracked
NewBranchingEnergy(config) ==
    [pc |-> "energy", config |-> config,
     straight_counts |-> [n \in {} |-> 0], energy |-> [n \in {} |-> 0]]

start_path(s, root_id) ==
    [s EXCEPT !.straight_counts = Put(@, root_id, 0),
              !.energy = Put(@, root_id, 0)]

get_straight_count(s, node_id) ==
    IF node_id \in DOMAIN s.straight_counts THEN s.straight_counts[node_id] ELSE 0

get_energy(s, node_id) ==
    IF node_id \in DOMAIN s.energy THEN s.energy[node_id] ELSE 0

\* a branch keeps the straight count of the path of the parent
RecordConnectionNoReset(s, parent_id, child_id, is_branch) ==
    LET parent_straight == get_straight_count(s, parent_id)
        parent_energy   == get_energy(s, parent_id)
        remaining       == Max2(0, parent_energy - s.config.energy_to_branch)
    IN  IF ~s.config.enabled THEN s
        ELSE IF is_branch
        THEN [s EXCEPT !.straight_counts = Put(@, child_id, parent_straight),
                       !.energy = Put(@, child_id, remaining \div 2)]
        ELSE [s EXCEPT !.straight_counts = Put(@, child_id, parent_straight + 1),
                       !.energy = Put(@, child_id,
                                      parent_energy + s.config.energy_per_node)]

record_connection(s, parent_id, child_id, is_branch) ==
    LET parent_straight == get_straight_count(s, parent_id)
        parent_energy   == get_energy(s, parent_id)
        remaining       == Max2(0, parent_energy - s.config.energy_to_branch)
    IN  IF ~s.config.enabled THEN s
        ELSE IF is_branch
        THEN [s EXCEPT !.straight_counts = Put(@, child_id, 0),
                       !.energy = Put(@, child_id, remaining \div 2)]
        ELSE [s EXCEPT !.straight_counts = Put(@, child_id, parent_straight + 1),
                       !.energy = Put(@, child_id,
                                      parent_energy + s.config.energy_per_node)]

\* the minimum of straight connections is not asked for
CanBranchNoMinimum(s, node_id) ==
    LET straight_count == get_straight_count(s, node_id)
    IN  IF ~s.config.enabled THEN TRUE
        ELSE IF straight_count >= s.config.max_straight THEN TRUE
        ELSE get_energy(s, node_id) >= s.config.energy_to_branch

can_branch(s, node_id) ==
    LET straight_count == get_straight_count(s, node_id)
    IN  IF ~s.config.enabled THEN TRUE
        ELSE IF straight_count < s.config.min_straight THEN FALSE
        ELSE IF straight_count >= s.config.max_straight THEN TRUE
        ELSE get_energy(s, node_id) >= s.config.energy_to_branch

must_branch(s, node_id) ==
    IF ~s.config.enabled THEN FALSE
    ELSE get_straight_count(s, node_id) >= s.config.max_straight

\* the probabilistic decision of should_branch: random.random() < final_prob
\* for the draws r1 (the offset) and r2 (the decision), in hundredths, with
\* every term brought to the denominator 100000 * energy_to_branch * span
BranchDraw(s, node_id, base_probability, r1, r2) ==
    LET straight_count == get_straight_count(s, node_id)
        energy == get_energy(s, node_id)
        etb    == s.config.energy_to_branch
        span   == Max2(1, s.config.max_straight - s.config.min_straight)
        den    == 100000 * etb * span
        \* (energy_factor * 0.6 + straight_factor * 0.4) * base_probability
        deterministic_prob ==
            (6 * Min2(etb, energy) * span
             + 4 * (straight_count - s.config.min_straight) * etb)
            * base_probability * 100
        \* (random.random() - 0.5) * 2 * randomness * 0.5
        offset == (r1 - 50) * s.config.randomness * 10 * etb * span
        final_prob == IF s.config.randomness > 0
                      THEN Max2(0, Min2(den, deterministic_prob + offset))
                      ELSE deterministic_prob
        \* with randomness 0 the decision takes the first draw
        decision == IF s.config.randomness > 0 THEN r2 ELSE r1
    IN  IF etb = 0 THEN ZeroDivisionError
        ELSE Returned(decision * 1000 * etb * span < final_prob)

\* the forced branch at max_straight is not looked at
ShouldBranchIgnoringMust(s, node_id, base_probability, r1, r2) ==
    IF ~s.config.enabled THEN Returned(r1 < base_probability)
    ELSE IF ~can_branch(s, node_id) THEN Returned(FALSE)
    ELSE BranchDraw(s, node_id, base_probability, r1, r2)

should_branch(s, node_id, base_probability, r1, r2) ==
    IF ~s.config.enabled THEN Returned(r1 < base_probability)
    ELSE IF ~can_branch(s, node_id) THEN Returned(FALSE)
    ELSE IF must_branch(s, node_id) THEN Returned(TRUE)
    ELSE BranchDraw(s, node_id, base_probability, r1, r2)

\* random.randint(lo, hi) for the draw d
RandInt(lo, hi, d) == lo + (d % (hi - lo + 1))

\* branched is the result of should_branch, d the draw of random.randint
calculate_children_count(s, node_id, max_children, branched, d) ==
    LET energy        == get_energy(s, node_id)
        energy_excess == Max2(0, energy - s.config.energy_to_branch)
        base_count    == 2
        energy_bonus  == energy_excess \div s.config.energy_per_node
        random_bonus  == RandInt(0, Max2(0, max_children - base_count - energy_bonus), d)
        final_count   ==
            IF s.config.randomness > 0
            THEN base_count + energy_bonus
                 + ((random_bonus * s.config.randomness) \div 100)
            ELSE base_count + energy_bonus
    IN  IF max_children <= 1 THEN Returned(max_children)
        ELSE IF branched.raised THEN branched
        ELSE IF ~branched.value THEN Returned(1)
        ELSE IF ~s.config.enabled \/ s.config.randomness >= 80
        THEN Returned(RandInt(2, max_children, d))
        ELSE IF s.config.energy_per_node = 0 THEN ZeroDivisionError
        ELSE Returned(Min2(max_children, Max2(2, final_count)))

\* BranchingEnergyConfig: thresholds around the defaults, a minimum above the
\* maximum and zero energies included; randomness in hundredths
EnergyConfigs ==
    {c \in [enabled : BOOLEAN, min_straight : {0, 2}, max_straight : {1, 2},
            energy_per_node : {0, One}, energy_to_branch : {0, One},
            randomness : {0, 30, 80}] :
        c.enabled \/ (/\ c.min_straight = 2 /\ c.max_straight = 2
                      /\ c.energy_per_node = One
                      /\ c.energy_to_branch = One /\ c.randomness = 30)}

ProbabilityChoices == {50, 100}

MaxChildrenArgs == 1..(NumItems + 1)

InitEnergy ==
    /\ spells = <<>>
    /\ cfg = [shape |-> Name("linear")]
    /\ twin = NewBuilder
    /\ plugins = ShapeRegistryPlugins
    /\ result = NoRegistryCall
    /\ \E config \in EnergyConfigs : b = NewBranchingEnergy(config)

\* _build_school_tree starts the path of the root
StartPath ==
    /\ b.pc = "energy"
    /\ \E root_id \in {"root"} :
          /\ b' = start_path(b, root_id)
          /\ result' = [kind |-> "started", node |-> root_id]
    /\ UNCHANGED <<spells, cfg, twin, plugins>>

\* _connect_nodes records each node once, when it is linked under its parent;
\* the halved energy stays a whole number of eighths
RecordConnection ==
    /\ b.pc = "energy"
    /\ \E parent_id \in PathNodes, child_id \in PathNodes, is_branch \in BOOLEAN :
          /\ child_id \notin DOMAIN b.straight_counts
          /\ child_id # parent_id
          /\ Max2(0, get_energy(b, parent_id) - b.config.energy_to_branch) % 2 = 0
          /\ b' = record_connection(b, parent_id, child_id, is_branch)
          /\ result' = [kind |-> "recorded", parent |-> parent_id,
                        node |-> child_id, is_branch |-> is_branch]
    /\ UNCHANGED <<spells, cfg, twin, plugins>>

ShouldBranch ==
    /\ b.pc = "energy"
    /\ \E node_id \in PathNodes, p \in ProbabilityChoices,
          r1 \in RandomValues, r2 \in RandomValues :
          result' = [kind |-> "should_branch", node |-> node_id, p |-> p,
                     r1 |-> r1, value |-> should_branch(b, node_id, p, r1, r2)]
    /\ b' = [b EXCEPT !.pc = "asked"]
    /\ UNCHANGED <<spells, cfg, twin, plugins>>

CalculateChildrenCount ==
    /\ b.pc = "energy"
    /\ \E node_id \in PathNodes, max_children \in MaxChildrenArgs,
          p \in ProbabilityChoices, r1 \in RandomValues, r2 \in RandomValues,
          d \in DrawValues :
          LET branched == should_branch(b, node_id, p, r1, r2)
          IN  result' = [kind |-> "children_count", node |-> node_id,
                         max_children |-> max_children, branched |-> branched,
                         value |-> calculate_children_count(b, node_id,
                                       max_children, branched, d)]
    /\ b' = [b EXCEPT !.pc = "asked"]
    /\ UNCHANGED <<spells, cfg, twin, plugins>>

NextEnergy == StartPath \/ RecordConnection \/ ShouldBranch \/ CalculateChildrenCount

SpecEnergy == InitEnergy /\ [][NextEnergy]_vars

----------------------------------------------------------------------------
(* core/math_utils.py: Vector2D, over the numbers (a + b * sqrt(3)) / 8 *)

\* lengths are counted in eighths: the default min_spacing of 1.0
Unit == 8

\* the number (a + b * sqrt(3)) / 8
Num(p, q) == <<p, q>>
NumAdd(m, n) == <<m[1] + n[1], m[2] + n[2]>>
NumSub(m, n) == <<m[1] - n[1], m[2] - n[2]>>
NumScale(n, k) == <<n[1] * k, n[2] * k>>

\* the sign of u + v * sqrt(3)
Sign(u, v) ==
    IF u = 0 /\ v = 0 THEN 0
    ELSE IF u >= 0 /\ v >= 0 THEN 1
    ELSE IF u <= 0 /\ v <= 0 THEN 0 - 1
    ELSE IF u > 0 THEN (IF u * u > 3 * v * v THEN 1 ELSE 0 - 1)
    ELSE (IF 3 * v * v > u * u THEN 1 ELSE 0 - 1)

Vec(x, y) == [x |-> x, y |-> y]
to_tuple(v) == <<v.x, v.y>>
VecAdd(v, w) == Vec(NumAdd(v.x, w.x), NumAdd(v.y, w.y))
VecSub(v, w) == Vec(NumSub(v.x, w.x), NumSub(v.y, w.y))
VecScale(v, k) == Vec(NumScale(v.x, k), NumScale(v.y, k))

\* Vector2D(x, y) for whole numbers x and y
Whole(x, y) == Vec(Num(Unit * x, 0), Num(Unit * y, 0))

\* the square of a number, in 64ths
NumSq(n) == <<n[1] * n[1] + 3 * n[2] * n[2], 2 * n[1] * n[2]>>

\* magnitude squared of v - w, in 64ths
DistSq(v, w) == NumAdd(NumSq(NumSub(v.x, w.x)), NumSq(NumSub(v.y, w.y)))

\* distance_to(v, w) < r and <= r, for r in eighths
DistLess(v, w, r) == Sign(DistSq(v, w)[1] - r * r, DistSq(v, w)[2]) < 0
DistAtMost(v, w, r) == Sign(DistSq(v, w)[1] - r * r, DistSq(v, w)[2]) <= 0

\* math.cos and math.sin of k * 30 degrees, in eighths
Cos30(k) ==
    CASE k % 12 \in {0}     -> Num(8, 0)
      [] k % 12 \in {1, 11} -> Num(0, 4)
      [] k % 12 \in {2, 10} -> Num(4, 0)
      [] k % 12 \in {3, 9}  -> Num(0, 0)
      [] k % 12 \in {4, 8}  -> Num(0 - 4, 0)
      [] k % 12 \in {5, 7}  -> Num(0, 0 - 4)
      [] k % 12 \in {6}     -> Num(0 - 8, 0)

Sin30(k) == Cos30(k + 9)

\* rotate, for a direction d with whole components and k steps of 30 degrees
Rotate(d, k) ==
    Vec(NumSub(NumScale(Cos30(k), d.x), NumScale(Sin30(k), d.y)),
        NumAdd(NumScale(Sin30(k), d.x), NumScale(Cos30(k), d.y)))

Sgn(x) == IF x > 0 THEN 1 ELSE IF x < 0 THEN 0 - 1 ELSE 0

\* normalized, for a vector with whole components along an axis: the zero
\* vector stays the zero vector
Normalized(d) == [x |-> Sgn(d.x), y |-> Sgn(d.y)]

----------------------------------------------------------------------------
(* core/spacing.py: SpacingEngine *)

cell_size == 2
repulsion_iterations == 3

SpaceNodes == <<"a", "b", "c">>
NoId == ""
NoRadius == 0 - 1
NoVector == [x |-> 9, y |-> 9]

\* floor(n / k) for a number n in eighths and k > 0 in eighths
FloorDiv(n, k) ==
    LET guess == (n[1] + ((7 * n[2]) \div 4)) \div k
    IN  CHOOSE c \in (guess - 1)..(guess + 1) :
            /\ Sign(n[1] - c * k, n[2]) >= 0
            /\ Sign(n[1] - (c + 1) * k, n[2]) < 0

get_cell(pos) ==
    <<FloorDiv(pos.x, Unit * cell_size), FloorDiv(pos.y, Unit * cell_size)>>

\* the cells in the order of the two loops, for a radius in eighths
get_nearby_cells(pos, radius) ==
    LET center_cell  == get_cell(pos)
        cells_radius == (radius \div (Unit * cell_size)) + 1
        width        == 2 * cells_radius + 1
    IN  [i \in 1..(width * width) |->
            <<center_cell[1] - cells_radius + ((i - 1) \div width),
              center_cell[2] - cells_radius + ((i - 1) % width)>>]

\* the index keeps the cells that hold a node: a cell left with an empty set
\* reads the same as a cell that is absent
IndexAt(index, cell) == IF cell \in DOMAIN index THEN index[cell] ELSE {}

IndexAdd(index, cell, node_id) ==
    [c \in DOMAIN index \cup {cell} |->
        IF c = cell THEN IndexAt(index, c) \cup {node_id} ELSE index[c]]

IndexDiscard(index, cell, node_id) ==
    [c \in {d \in DOMAIN index : index[d] \ (IF d = cell THEN {node_id} ELSE {}) # {}} |->
        IF c = cell THEN index[c] \ {node_id} ELSE index[c]]

NewSpacingEngine(min_spacing) ==
    [pc |-> "spacing", min_spacing |-> min_spacing,
     positions |-> [n \in {} |-> 0], spatial_index |-> [c \in {} |-> {}],
     nodes |-> [n \in {} |-> 0], iterations |-> 0, cluster |-> FALSE]

\* the node stays in the cell of its old position
RegisterKeepOldCell(s, node_id, position) ==
    [s EXCEPT !.positions = Put(@, node_id, position),
              !.spatial_index = IndexAdd(@, get_cell(position), node_id)]

register_node(s, node_id, position) ==
    LET removed == IF node_id \in DOMAIN s.positions
                   THEN IndexDiscard(s.spatial_index,
                                     get_cell(s.positions[node_id]), node_id)
                   ELSE s.spatial_index
    IN  [s EXCEPT !.positions = Put(@, node_id, position),
                  !.spatial_index = IndexAdd(removed, get_cell(position), node_id)]

unregister_node(s, node_id) ==
    IF node_id \in DOMAIN s.positions
    THEN [s EXCEPT !.positions = [n \in DOMAIN @ \ {node_id} |-> @[n]],
                   !.spatial_index =
                       IndexDiscard(@, get_cell(s.positions[node_id]), node_id)]
    ELSE s

\* "radius or self.min_spacing * 2", in eighths
RadiusOr(s, radius) ==
    IF radius = NoRadius \/ radius = 0 THEN s.min_spacing * 2 ELSE radius

\* the ids in the order of the cells; within a cell in the order of SpaceNodes
get_nearby_nodes(s, position, radius) ==
    LET r     == RadiusOr(s, radius)
        cells == get_nearby_cells(position, r)
    IN  ConcatAll([i \in DOMAIN cells |->
            FilterSeq(SpaceNodes,
                {n \in IndexAt(s.spatial_index, cells[i]) :
                    DistAtMost(s.positions[n], position, r)})])

check_overlap(s, position, exclude_id) ==
    \E n \in SeqToSet(get_nearby_nodes(s, position, s.min_spacing)) :
        /\ n # exclude_id
        /\ DistLess(s.positions[n], position, s.min_spacing)

\* the direction of the search, with whole components
SearchDirection(preferred, parent_pos, direction) ==
    IF direction # NoVector THEN direction
    ELSE IF parent_pos # NoVector
    THEN Normalized([x |-> preferred.x - parent_pos.x,
                     y |-> preferred.y - parent_pos.y])
    ELSE [x |-> 1, y |-> 0]

\* the probe of ring radius_mult at angle_offset = 30 * k
ProbeAt(s, preferred, dir, radius_mult, k) ==
    VecAdd(Whole(preferred.x, preferred.y),
           VecScale(Rotate(dir, k), (s.min_spacing \div Unit) * radius_mult))

\* the i-th probe in the order of the two loops: five rings of twelve
Probe(s, preferred, dir, i) ==
    ProbeAt(s, preferred, dir, ((i - 1) \div 12) + 1, (i - 1) % 12)

RECURSIVE SearchProbes(_, _, _, _)
\* the loops from the i-th probe on: the first probe without overlap, else
\* the fallback
SearchProbes(s, preferred, dir, i) ==
    IF i > 60
    THEN VecAdd(Whole(preferred.x, preferred.y),
                VecScale(Rotate(dir, 0), (s.min_spacing \div Unit) * 2))
    ELSE IF ~check_overlap(s, Probe(s, preferred, dir, i), NoId)
    THEN Probe(s, preferred, dir, i)
    ELSE SearchProbes(s, preferred, dir, i + 1)

find_valid_position(s, preferred, parent_pos, direction) ==
    LET dir == SearchDirection(preferred, parent_pos, direction)
    IN  IF ~check_overlap(s, Whole(preferred.x, preferred.y), NoId)
        THEN Whole(preferred.x, preferred.y)
        ELSE SearchProbes(s, preferred, dir, 1)

\* the pairs of one iteration that push each other: nearer than min_spacing
\* and not at the same place
Pushes(s, node_id, other_id) ==
    /\ other_id # node_id
    /\ other_id \in SeqToSet(get_nearby_nodes(s, s.positions[node_id], NoRadius))
    /\ DistLess(s.positions[node_id], s.positions[other_id], s.min_spacing)
    /\ s.positions[node_id] # s.positions[other_id]

\* diff.normalized * (min_spacing - dist) * 0.5 for two nodes on a line
\* parallel to the x axis
ForceOn(s, node_id, other_id) ==
    LET dx == s.positions[node_id].x[1] - s.positions[other_id].x[1]
    IN  IF Pushes(s, node_id, other_id)
        THEN Sgn(dx) * ((s.min_spacing - Abs(dx)) \div 2)
        ELSE 0

RECURSIVE SumForces(_, _, _)
SumForces(s, node_id, others) ==
    IF others = <<>> THEN 0
    ELSE ForceOn(s, node_id, Head(others)) + SumForces(s, node_id, Tail(others))

RECURSIVE ApplyForces(_, _, _)
\* "for node_id, force in forces.items()": register the nodes that move
ApplyForces(s, forces, ids) ==
    IF ids = <<>> THEN s
    ELSE LET n == Head(ids)
             new_pos == Vec(NumAdd(s.positions[n].x, Num(forces[n], 0)),
                            s.positions[n].y)
             moved == IF n \in DOMAIN forces /\ forces[n] # 0
                      THEN [register_node(s, n, new_pos) EXCEPT
                               !.nodes = IF n \in DOMAIN @
                                         THEN Put(@, n, to_tuple(new_pos))
                                         ELSE @]
                      ELSE s
         IN  ApplyForces(moved, forces, Tail(ids))

\* clear()
clear(s) ==
    [s EXCEPT !.positions = [n \in {} |-> 0],
              !.spatial_index = [c \in {} |-> {}]]

\* one iteration of repel_nearby_nodes
RepelIteration(s) ==
    LET forces == [n \in DOMAIN s.positions |-> SumForces(s, n, SpaceNodes)]
    IN  ApplyForces(s, forces, SpaceNodes)

\* the pushes of the state can be computed on the x axis in whole eighths
Representable(s) ==
    \A n \in DOMAIN s.positions, o \in DOMAIN s.positions :
        Pushes(s, n, o) =>
            /\ s.positions[n].y = s.positions[o].y
            /\ s.positions[n].x[2] = 0 /\ s.positions[o].x[2] = 0
            /\ (s.min_spacing - Abs(s.positions[n].x[1] - s.positions[o].x[1])) % 2 = 0

\* the pairs of nodes nearer than min_spacing
ClosePairs(s) ==
    {pr \in SUBSET DOMAIN s.positions :
        /\ Cardinality(pr) = 2
        /\ \A n \in pr, o \in pr :
               DistLess(s.positions[n], s.positions[o], s.min_spacing)}

\* positions with whole coordinates, on both sides of the cell borders
GridPoints ==
    {[x |-> x, y |-> 0] : x \in {0 - 2, 0, 1, 3}} \cup {[x |-> 0, y |-> 2]}

\* the positions a place is searched for
PreferredChoices == {[x |-> x, y |-> 0] : x \in {0, 1}}

RadiusChoices == {NoRadius, 0, Unit, 3 * Unit}

MinSpacingChoices == {Unit, 2 * Unit}

\* the parent is looked at only when no direction is given
ParentChoices(preferred, direction) ==
    IF direction # NoVector THEN {NoVector}
    ELSE {NoVector, preferred, [x |-> preferred.x - 1, y |-> preferred.y],
          [x |-> preferred.x, y |-> preferred.y - 2]}

DirectionChoices ==
    {NoVector, [x |-> 1, y |-> 0], [x |-> 0, y |-> 1], [x |-> 0 - 1, y |-> 0]}

IterationChoices == {0, 1, repulsion_iterations}

\* the ids of the node table handed to repel_nearby_nodes; each node holds
\* the position it was registered with
NodeTableChoices == {{}, {"a"}, {"a", "b", "c"}}

InitSpacing ==
    /\ spells = <<>>
    /\ cfg = [shape |-> Name("linear")]
    /\ twin = NewBuilder
    /\ plugins = ShapeRegistryPlugins
    /\ result = NoRegistryCall
    /\ \E min_spacing \in MinSpacingChoices : b = NewSpacingEngine(min_spacing)

RegisterNode ==
    /\ b.pc = "spacing"
    /\ \E node_id \in SeqToSet(SpaceNodes), position \in GridPoints :
          /\ b' = register_node(b, node_id, Whole(position.x, position.y))
          /\ result' = [kind |-> "registered_node"]
    /\ UNCHANGED <<spells, cfg, twin, plugins>>

UnregisterNode ==
    /\ b.pc = "spacing"
    /\ \E node_id \in SeqToSet(SpaceNodes) :
          /\ b' = unregister_node(b, node_id)
          /\ result' = [kind |-> "unregistered_node"]
    /\ UNCHANGED <<spells, cfg, twin, plugins>>

GetNearbyNodes ==
    /\ b.pc = "spacing"
    /\ \E position \in GridPoints, radius \in RadiusChoices :
          result' = [kind |-> "nearby", position |-> position, radius |-> radius,
                     value |-> get_nearby_nodes(b, Whole(position.x, position.y),
                                                radius)]
    /\ b' = [b EXCEPT !.pc = "asked"]
    /\ UNCHANGED <<spells, cfg, twin, plugins>>

CheckOverlap ==
    /\ b.pc = "spacing"
    /\ \E position \in GridPoints, exclude_id \in SeqToSet(SpaceNodes) \cup {NoId} :
          result' = [kind |-> "overlap", position |-> position,
                     exclude_id |-> exclude_id,
                     value |-> check_overlap(b, Whole(position.x, position.y),
                                             exclude_id)]
    /\ b' = [b EXCEPT !.pc = "asked"]
    /\ UNCHANGED <<spells, cfg, twin, plugins>>

FindValidPosition ==
    /\ b.pc = "spacing"
    /\ \E preferred \in PreferredChoices, direction \in DirectionChoices :
          \E parent_pos \in ParentChoices(preferred, direction) :
              result' = [kind |-> "found", preferred |-> preferred,
                         parent_pos |-> parent_pos, direction |-> direction,
                         value |-> find_valid_position(b, preferred, parent_pos,
                                                       direction)]
    /\ b' = [b EXCEPT !.pc = "asked"]
    /\ UNCHANGED <<spells, cfg, twin, plugins>>

\* repel_nearby_nodes(nodes, iterations): "iterations or repulsion_iterations"
RepelNearbyNodes ==
    /\ b.pc = "spacing"
    /\ \E iterations \in IterationChoices, table \in NodeTableChoices :
          b' = [b EXCEPT !.pc = "repel",
                         !.nodes = [n \in table |->
                                       IF n \in DOMAIN b.positions
                                       THEN to_tuple(b.positions[n])
                                       ELSE to_tuple(NoVector)],
                         !.iterations = IF iterations = 0
                                        THEN repulsion_iterations ELSE iterations,
                         !.cluster = /\ Cardinality(DOMAIN b.positions) > 1
                                     /\ \A n \in DOMAIN b.positions,
                                           o \in DOMAIN b.positions :
                                            b.positions[n] = b.positions[o]]
    /\ result' = [kind |-> "repel"]
    /\ UNCHANGED <<spells, cfg, twin, plugins>>

\* one pass of "for _ in range(iterations)"
RepelStep ==
    /\ b.pc = "repel"
    /\ b.iterations > 0
    /\ Representable(b)
    /\ b' = [RepelIteration(b) EXCEPT
                !.iterations = @ - 1,
                !.pc = IF b.iterations = 1 THEN "repelled" ELSE "repel"]
    /\ result' = [kind |-> "repel_step"]
    /\ UNCHANGED <<spells, cfg, twin, plugins>>

Clear ==
    /\ b.pc = "spacing"
    /\ b' = clear(b)
    /\ result' = [kind |-> "cleared"]
    /\ UNCHANGED <<spells, cfg, twin, plugins>>

NextSpacing ==
    \/ RegisterNode \/ UnregisterNode \/ GetNearbyNodes \/ CheckOverlap
    \/ FindValidPosition \/ RepelNearbyNodes \/ RepelStep \/ Clear

SpecSpacing == InitSpacing /\ [][NextSpacing]_vars

----------------------------------------------------------------------------
(* tree_builder.py: the links of _connect_nodes under branching energy *)

\* the tracker after reset(), with the parent of every linked node
NewLinks(config) ==
    [pc |-> "school", config |-> config,
     straight_counts |-> [n \in {} |-> 0], energy |-> [n \in {} |-> 0],
     parent_of |-> [n \in {} |-> ""]]

\* _should_branch without custom_branching:
\* self.branching.should_branch(parent.form_id, 0.5) or has_existing_children
ShouldBranchLink(s, parent_id, r1, r2) ==
    LET has_existing_children ==
            \E c \in DOMAIN s.parent_of : s.parent_of[c] = parent_id
        drawn == should_branch(s, parent_id, 50, r1, r2)
    IN  IF drawn.raised THEN drawn
        ELSE Returned(drawn.value \/ has_existing_children)

\* "if parent:" in _connect_nodes: _should_branch, link_nodes,
\* record_connection; an exception of should_branch ends the build
LinkResults(s, parent_id, child_id, r1, r2) ==
    LET is_branch == ShouldBranchLink(s, parent_id, r1, r2)
        recorded  == record_connection(s, parent_id, child_id, is_branch.value)
    IN  IF is_branch.raised THEN [s EXCEPT !.pc = "raised"]
        ELSE [recorded EXCEPT !.parent_of = Put(@, child_id, parent_id)]

InitLinks ==
    /\ spells = <<>>
    /\ cfg = [shape |-> Name("linear")]
    /\ twin = NewBuilder
    /\ plugins = ShapeRegistryPlugins
    /\ result = NoRegistryCall
    /\ \E config \in EnergyConfigs : config.enabled /\ b = NewLinks(config)

\* _build_school_tree: self.branching.start_path(root_id)
StartRootPath ==
    /\ b.pc = "school"
    /\ b' = [start_path(b, "root") EXCEPT !.pc = "connect"]
    /\ UNCHANGED <<spells, cfg, twin, plugins, result>>

\* a node that is not connected yet is linked under an available node
LinkNode ==
    /\ b.pc = "connect"
    /\ \E parent_id \in DOMAIN b.straight_counts,
          child_id \in PathNodes \ DOMAIN b.straight_counts,
          r1 \in RandomValues, r2 \in RandomValues :
          b' = LinkResults(b, parent_id, child_id, r1, r2)
    /\ UNCHANGED <<spells, cfg, twin, plugins, result>>

NextLinks == StartRootPath \/ LinkNode

SpecLinks == InitLinks /\ [][NextLinks]_vars

----------------------------------------------------------------------------
(* server.py: the request loop of main *)

\* the value of a request without the key "id"
MissingId == "(no id)"

\* request_id = None, before the line is parsed
NoRequestId == "(None)"

\* {"id": request_id, "success": success, ...} written as one line
send_response(s, request_id, success) ==
    [s EXCEPT !.stdout = Append(@, [id |-> request_id, success |-> success])]

\* "except Exception": the id, or "unknown" for a falsy one
RespondError(s, request_id) ==
    send_response(s, IF request_id = "" THEN "unknown" ELSE request_id, FALSE)

\* "except json.JSONDecodeError": answered only "if request_id", which is
\* still None when the line itself did not parse
RespondDecodeError(s, request_id) ==
    IF request_id \in {NoRequestId, ""} THEN s
    ELSE send_response(s, request_id, FALSE)

\* msg.get("id", "unknown")
RequestId(msg) == IF msg.id = MissingId THEN "unknown" ELSE msg.id

\* the body of "for line in sys.stdin" for a line that parsed to a dict
HandleRequest(s, msg) ==
    LET request_id == RequestId(msg)
    IN  CASE msg.command = "shutdown" ->
                 [send_response(s, request_id, TRUE) EXCEPT !.pc = "exited"]
          [] msg.command = "ping" -> send_response(s, request_id, TRUE)
          [] msg.command = "build_tree" ->
                 IF ~s.has_build_tree THEN send_response(s, request_id, FALSE)
                 ELSE IF msg.outcome = "raises" THEN RespondError(s, request_id)
                 ELSE send_response(s, request_id, TRUE)
          [] msg.command = "prm_score" ->
                 IF ~s.has_prm THEN send_response(s, request_id, FALSE)
                 ELSE IF msg.outcome = "raises" THEN RespondError(s, request_id)
                 ELSE IF msg.outcome = "bad_json"
                      THEN RespondDecodeError(s, request_id)
                 ELSE send_response(s, request_id, msg.outcome = "success")
          [] OTHER -> send_response(s, request_id, FALSE)

\* one iteration of the loop on the line read
HandleLine(s, line) ==
    LET read == [s EXCEPT !.read = @ + 1, !.line = line]
    IN  CASE line.kind = "empty"   -> read
          [] line.kind = "invalid" -> RespondDecodeError(read, NoRequestId)
          [] line.kind = "scalar"  -> RespondError(read, "")
          [] OTHER                 -> HandleRequest(read, line)

\* what build_tree_from_data and process_request do with a request
HandlerOutcomes(command) ==
    CASE command = "build_tree" -> {"success", "raises"}
      [] command = "prm_score"  -> {"success", "failure", "raises", "bad_json"}
      [] OTHER                  -> {"success"}

ServerCommands == {"ping", "build_tree", "prm_score", "shutdown", "restart"}

\* blank lines, text that is not JSON, JSON that is not an object, requests
ServerLines ==
    {[kind |-> k, id |-> MissingId, command |-> "", outcome |-> "success"] :
        k \in {"empty", "invalid", "scalar"}}
    \cup UNION {{[kind |-> "request", id |-> i, command |-> c, outcome |-> o] :
                    i \in {"req_1", "", MissingId},
                    o \in HandlerOutcomes(c)} : c \in ServerCommands}

\* the state after send_response("__ready__", True, ...)
InitServer ==
    /\ spells = <<>>
    /\ cfg = [shape |-> Name("linear")]
    /\ twin = NewBuilder
    /\ plugins = EmptyRegistry
    /\ result = NoRegistryCall
    /\ \E has_build_tree \in BOOLEAN, has_prm \in BOOLEAN :
          b = [pc |-> "serving", has_build_tree |-> has_build_tree,
               has_prm |-> has_prm, read |-> 0,
               line |-> [kind |-> "empty", id |-> MissingId, command |-> "",
                         outcome |-> "success"],
               stdout |-> <<[id |-> "__ready__", success |-> TRUE]>>]

ReadLine ==
    /\ b.pc = "serving" /\ b.read < NumItems
    /\ \E line \in ServerLines : b' = HandleLine(b, line)
    /\ UNCHANGED <<spells, cfg, twin, plugins, result>>

\* stdin is closed
EndOfInput ==
    /\ b.pc = "serving"
    /\ b' = [b EXCEPT !.pc = "exited"]
    /\ UNCHANGED <<spells, cfg, twin, plugins, result>>

NextServer == ReadLine \/ EndOfInput

SpecServer == InitServer /\ [][NextServer]_vars

----------------------------------------------------------------------------
(* tree_builder.py: build_trees over the schools of a spell list *)

SCHOOL_DEFAULT_SHAPES ==
    [n \in {"Destruction", "Restoration", "Alteration", "Conjuration",
            "Illusion"} |->
        CASE n = "Destruction" -> Name("explosion")
          [] n = "Restoration" -> Name("tree")
          [] n = "Alteration"  -> Name("mountain")
          [] n = "Conjuration" -> Name("portals")
          [] n = "Illusion"    -> Name("organic")]

\* the 'school' values of the spells of the input
RawSchools == {"Destruction", "Alteration", "Restoration", "null"}

\* school = spell.get('school', 'Unknown'), empty and null names are
\* gathered under 'Hedge Wizard'
SchoolOf(spell) ==
    IF spell.school \in {"", "null", "undefined", "None"} THEN "Hedge Wizard"
    ELSE spell.school

\* the keys of the dictionary schools, in the order of their insertion
SchoolOrder(spell_list) ==
    Distinct([i \in DOMAIN spell_list |-> SchoolOf(spell_list[i])])

SchoolNames == {SchoolOf([school |-> r]) : r \in RawSchools}

\* int(x) of a number given in units of 1/One
ToInt(x) == x \div One

ScKeys == {"shape", "density", "symmetry", "convergence_chance",
           "min_straight", "max_straight", "energy_randomness"}

\* a per-school configuration: the keys it has and their values (a value of
\* a key it does not have is never read)
SchoolConfig(keys, shape, percent, straight) ==
    [keys |-> keys, shape |-> Name(shape), density |-> percent,
     symmetry |-> percent, convergence_chance |-> percent,
     min_straight |-> straight, max_straight |-> straight,
     energy_randomness |-> percent]

SchoolConfigChoices ==
    {SchoolConfig(keys, shape, 10, 3 * One + 4) :
        keys \in {{"shape"}, {"density"}, {"min_straight"}, {"max_straight"},
                  {"symmetry", "convergence_chance"},
                  {"shape", "min_straight", "max_straight", "energy_randomness"}},
        shape \in {"linear", "portals"}}

\* school_configs: the schools it has as keys and their configurations
SchoolConfigTables ==
    {[keys |-> {}, of |-> [n \in SchoolNames |-> SchoolConfig({}, "linear", 0, 0)]]}
    \cup {[keys |-> {school},
           of |-> [n \in SchoolNames |-> IF n = school THEN sc
                                         ELSE SchoolConfig({}, "linear", 0, 0)]] :
             school \in SchoolNames, sc \in SchoolConfigChoices}

\* the settings of self.cfg that _reinit_for_school writes
BuilderSettings ==
    {[shape |-> Name(shape), density |-> 60, symmetry |-> 30,
      convergence_chance |-> 40,
      branching_energy |-> [min_straight |-> straight[1],
                            max_straight |-> straight[2], randomness |-> 30]] :
        shape \in {"organic", "cascade", "tree"},
        straight \in {<<2, 5>>, <<1, 4>>}}

\* BranchingEnergyConfig.from_dict(self.cfg.get_branching_energy_config())
BranchingOf(settings) ==
    [min_straight |-> settings.branching_energy.min_straight,
     max_straight |-> settings.branching_energy.max_straight,
     randomness |-> settings.branching_energy.randomness]

\* the builder after __init__, with the school list of build_trees
NewSchoolsBuilder(settings, spell_list, school_configs) ==
    [pc |-> "loop", cfg |-> settings,
     shape |-> ShapeAfterGet(NoShape, settings.shape),
     branching |-> BranchingOf(settings),
     schools |-> SchoolOrder(spell_list), school_configs |-> school_configs,
     school |-> "", output |-> <<>>]

\* _reinit_for_school(school_config): self.cfg after the updates
ReinitSettings(settings, sc) ==
    LET s1 == IF "shape" \in sc.keys
              THEN [settings EXCEPT !.shape = sc.shape] ELSE settings
        s2 == IF "density" \in sc.keys
              THEN [s1 EXCEPT !.density = sc.density] ELSE s1
        s3 == IF "symmetry" \in sc.keys
              THEN [s2 EXCEPT !.symmetry = sc.symmetry] ELSE s2
        s4 == IF "convergence_chance" \in sc.keys
              THEN [s3 EXCEPT !.convergence_chance = sc.convergence_chance]
              ELSE s3
        s5 == IF "min_straight" \in sc.keys \/ "max_straight" \in sc.keys
              THEN [s4 EXCEPT
                      !.branching_energy.min_straight =
                          IF "min_straight" \in sc.keys
                          THEN ToInt(sc.min_straight) ELSE 2,
                      !.branching_energy.max_straight =
                          IF "max_straight" \in sc.keys
                          THEN ToInt(sc.max_straight) ELSE 5,
                      !.branching_energy.randomness =
                          IF "energy_randomness" \in sc.keys
                          THEN sc.energy_randomness
                          ELSE s4.branching_energy.randomness]
              ELSE s4
    IN  s5

\* _reinit_for_school(school_config)
reinit_for_school(s, sc) ==
    LET settings == ReinitSettings(s.cfg, sc)
    IN  [s EXCEPT !.cfg = settings,
                  !.shape = ShapeAfterGet(s.shape, settings.shape),
                  !.branching = BranchingOf(settings)]

\* build_trees: the configuration given to _reinit_for_school for a school
SchoolConfigFor(s, school_name) ==
    IF school_name \in s.school_configs.keys
    THEN s.school_configs.of[school_name]
    ELSE SchoolConfig({"shape"},
             IF school_name \in DOMAIN SCHOOL_DEFAULT_SHAPES
             THEN SCHOOL_DEFAULT_SHAPES[school_name].base ELSE "organic", 0, 0)

\* _build_school_tree: the tree returned for the school, with the strategy
\* that find_parent asks for the parents and the settings the build reads
SchoolTree(s, school_name) ==
    [school |-> school_name,
     layoutStyle |-> IF s.cfg.shape # Name("organic") THEN s.cfg.shape
                     ELSE Name("radial"),
     has_config_used |-> school_name \in s.school_configs.keys,
     config_used |-> [shape |-> s.cfg.shape, density |-> s.cfg.density,
                      symmetry |-> s.cfg.symmetry],
     strategy |-> s.shape,
     convergence_chance |-> s.cfg.convergence_chance,
     branching |-> s.branching]

SchoolSpellLists ==
    UNION {[1..n -> [school : RawSchools]] : n \in 1..(NumItems - 1)}

InitSchools ==
    /\ spells \in SchoolSpellLists
    /\ cfg \in BuilderSettings
    /\ twin = NewBuilder
    /\ plugins = ShapeRegistryPlugins
    /\ result = NoRegistryCall
    /\ \E school_configs \in SchoolConfigTables :
          b = NewSchoolsBuilder(cfg, spells, school_configs)

\* build_trees: the per-school or the default configuration is applied
ReinitSchool ==
    /\ b.pc = "loop" /\ b.schools # <<>>
    /\ b' = [reinit_for_school(b, SchoolConfigFor(b, Head(b.schools)))
                EXCEPT !.pc = "school", !.school = Head(b.schools),
                       !.schools = Tail(b.schools)]
    /\ UNCHANGED <<spells, cfg, twin, plugins, result>>

\* build_trees: the tree of the school is built and stored in the output
BuildSchool ==
    /\ b.pc = "school"
    /\ b' = [b EXCEPT !.pc = "loop",
                      !.output = Append(b.output, SchoolTree(b, b.school))]
    /\ UNCHANGED <<spells, cfg, twin, plugins, result>>

\* build_trees: return output
ReturnOutput ==
    /\ b.pc = "loop" /\ b.schools = <<>>
    /\ b' = [b EXCEPT !.pc = "returned"]
    /\ UNCHANGED <<spells, cfg, twin, plugins, result>>

NextSchools == ReinitSchool \/ BuildSchool \/ ReturnOutput

SpecSchools == InitSchools /\ [][NextSchools]_vars

----------------------------------------------------------------------------
(* Properties *)

NonRoot(nodes, root) == DOMAIN nodes \ {root}

Bidirectional(nodes) ==
    \A p \in DOMAIN nodes, c \in DOMAIN nodes :
        c \in nodes[p].children <=> p \in nodes[c].prerequisites

OnCycle(nodes, n) ==
    \E p \in DOMAIN nodes : n \in nodes[p].children /\ p \in Closure(nodes, {n})

Built == b.pc = "done" /\ b.root_id # None

\* C1: in a returned school tree a breadth-first walk from the root over
\* children edges visits every node of the tree; a build leaves no node for the
\* repair to fix.
C1_Connectivity ==
    /\ b.pc # "fix"
    /\ Built => get_reachable_from_root(b.nodes, b.root_id) = DOMAIN b.nodes

\* a returned tree of Novice spells whose last spell found no parent with
\* capacity and was attached by _connect_orphans
C1_Witness ==
    /\ Built /\ Len(spells) = NumItems
    /\ cfg.max_children_per_node = 1
    /\ \A i \in DOMAIN b.nodes : b.nodes[i].tier = "Novice"
    /\ Cardinality(b.nodes[b.root_id].children) > 1
    /\ get_reachable_from_root(b.nodes, b.root_id) = DOMAIN b.nodes

\* C2: after every edge mutation of a build or of a repair, A lists B among
\* its children exactly when B lists A among its prerequisites.
C2_Bidirectional == Bidirectional(b.nodes)

\* the repair replaced a blocking prerequisite, or fell back to the root
C2_Witness ==
    /\ spells = <<>> /\ b.pc = "done" /\ b.pass_num >= 1
    /\ \E n \in NonRoot(b.nodes, b.root_id) : b.nodes[n].prerequisites # {}
    /\ Bidirectional(b.nodes)

\* C3: the prerequisite graph of a tree under construction has no cycle.
C3_Acyclic == \A n \in DOMAIN b.nodes : ~OnCycle(b.nodes, n)

\* the enforcement pass went over a Master node that has a child, and did
\* not take the child as a prerequisite
C3_Witness ==
    /\ Built
    /\ \E n \in NonRoot(b.nodes, b.root_id) :
          /\ b.nodes[n].tier = "Master"
          /\ b.nodes[n].children # {}
          /\ b.nodes[n].children \cap b.nodes[n].prerequisites = {}
    /\ \A n \in DOMAIN b.nodes : ~OnCycle(b.nodes, n)

\* C4: after all build steps no node has more than max_children_per_node
\* children.
C4_Capacity ==
    Built => \A n \in DOMAIN b.nodes :
                Cardinality(b.nodes[n].children) <= cfg.max_children_per_node

TierEdgeOk(p, c) ==
    /\ TierIndex(b.nodes[c].tier) >= TierIndex(b.nodes[p].tier)
    /\ ~cfg.allow_same_tier_links
          => TierIndex(b.nodes[c].tier) > TierIndex(b.nodes[p].tier)

\* C5: with strict_tier_ordering, along every parent-to-child edge of a built
\* tree the child's tier is at least the parent's, and strictly greater when
\* allow_same_tier_links is false.
C5_TierMonotone ==
    (Built /\ cfg.strict_tier_ordering) =>
        \A p \in DOMAIN b.nodes : \A c \in b.nodes[p].children : TierEdgeOk(p, c)

\* C6: _ensure_all_reachable, run on any node table with a root, ends with
\* every node unlockable.
C6_RepairCompletes ==
    (spells = <<>> /\ b.pc = "done") =>
        simulate_unlocks(b.nodes, b.root_id) = DOMAIN b.nodes

MasterNodes == {n \in NonRoot(b.nodes, b.root_id) : b.nodes[n].tier = "Master"}

Eligible(n) ==
    {c \in get_reachable_from_root(b.nodes, b.root_id) \ {n} :
        /\ b.nodes[c].depth < b.nodes[n].depth
        /\ ~is_descendant(c, n, b.nodes)}

C9_UnknownShapeFails ==
    Built =>
        /\ RegistryHas(ShapeRegistryPlugins, cfg.shape)
        /\ RegistryHas(ShapeRegistryPlugins, b.cfg_shape)

\* C10: create with a name that is not registered gives an error that lists
\* every registered name, builds nothing and leaves the registry unchanged;
\* create with a registered name gives an instance of exactly the class
\* registered under that name.
C10_Create ==
    /\ result.kind = "KeyError" =>
          /\ ~RegistryHas(plugins, result.name)
          /\ result.available = DOMAIN plugins
    /\ result.kind = "instance" =>
          /\ RegistryHas(plugins, result.name)
          /\ result.class = plugins[Lower(result.name)]

\* an unknown name was asked of a registry that holds two plugins
C10_Witness ==
    /\ result.kind = "KeyError"
    /\ Cardinality(DOMAIN plugins) = 2
    /\ result.available = DOMAIN plugins

SameName(n, v) == n.base = v.base

\* C11: registry names are case-insensitive: get, has and create give the same
\* answer for every letter-case variant of a name, the class last registered
\* under any variant is the one they resolve to, and list_names holds at most
\* one entry per name.
C11_CaseInsensitive ==
    /\ \A n \in RegistryNames, v \in RegistryNames :
          SameName(n, v) =>
              /\ RegistryGet(plugins, n) = RegistryGet(plugins, v)
              /\ RegistryHas(plugins, n) = RegistryHas(plugins, v)
              /\ RegistryCreate(plugins, n).kind = RegistryCreate(plugins, v).kind
    /\ \A n \in RegistryNames :
          Cardinality({k \in RegistryListNames(plugins) : SameName(k, n)}) <= 1
    /\ result.kind = "registered" =>
          \A v \in RegistryNames :
              SameName(v, result.name) =>
                  /\ RegistryGet(plugins, v) = result.class
                  /\ RegistryHas(plugins, v)
                  /\ RegistryCreate(plugins, v).kind = "instance"
                  /\ RegistryCreate(plugins, v).class = result.class

\* an upper-case variant was registered beside another plugin and resolves
\* through the lower-case name
C11_Witness ==
    /\ result.kind = "registered" /\ result.name.upper
    /\ Cardinality(RegistryListNames(plugins)) = 2
    /\ RegistryGet(plugins, Lower(result.name)) = result.class

HasRoom(c) == Cardinality(b.nodes[c].children) < ShapeMaxChildren(b.shape)

\* C12: select_parent of every shape returns None or one of the given
\* candidates whose children count is below the bound of the shape, and None
\* when no candidate has room.
C12_SelectParent ==
    result.kind = "selected" =>
        /\ \/ result.parent = None
           \/ /\ result.parent \in SeqToSet(b.candidates)
              /\ HasRoom(result.parent)
        /\ (\A c \in SeqToSet(b.candidates) : ~HasRoom(c)) <=> result.parent = None

\* a candidate with room was chosen although the first candidate is full
C12_Witness ==
    /\ result.kind = "selected" /\ result.parent # None
    /\ Len(b.candidates) = NumItems
    /\ ~HasRoom(1) /\ HasRoom(result.parent)

Roots(nodes) == {i \in DOMAIN nodes : nodes[i].is_root}

\* C13: a returned school tree has exactly one node with is_root set; it is
\* the node the output names as root, it is at depth 0 and it has no
\* prerequisites.
C13_SingleRoot ==
    Built =>
        /\ Roots(b.nodes) = {b.root_id}
        /\ b.nodes[b.root_id].depth = 0
        /\ b.nodes[b.root_id].prerequisites = {}

\* a returned tree whose root is the canonical Master spell at the end of the
\* list, with the other spells below it
C13_Witness ==
    /\ Built /\ Len(spells) = NumItems
    /\ b.root_id = NumItems
    /\ b.nodes[b.root_id].tier = "Master"
    /\ b.nodes[b.root_id].children # {}
    /\ \E i \in DOMAIN b.nodes : b.nodes[i].prerequisites # {}

\* the entry of node n is the same before and after the step
SameEntry(n) ==
    /\ (n \in DOMAIN b.straight_counts) = (n \in DOMAIN b'.straight_counts)
    /\ (n \in DOMAIN b.energy) = (n \in DOMAIN b'.energy)
    /\ get_straight_count(b, n) = get_straight_count(b', n)
    /\ get_energy(b, n) = get_energy(b', n)

\* what record_connection and start_path do to the tracked paths in one step
RecordStep ==
    LET child  == result'.node
        parent == result'.parent
    IN  /\ result'.kind = "recorded" /\ b.config.enabled =>
              /\ child \in DOMAIN b'.straight_counts \cap DOMAIN b'.energy
              /\ \A n \in PathNodes \ {child} : SameEntry(n)
              /\ result'.is_branch =>
                    /\ b'.straight_counts[child] = 0
                    /\ 2 * b'.energy[child] =
                           Max2(0, get_energy(b, parent) - b.config.energy_to_branch)
              /\ ~result'.is_branch =>
                    /\ b'.straight_counts[child] = get_straight_count(b, parent) + 1
                    /\ b'.energy[child] =
                           get_energy(b, parent) + b.config.energy_per_node
        /\ result'.kind = "started" =>
              /\ child \in DOMAIN b'.straight_counts \cap DOMAIN b'.energy
              /\ b'.straight_counts[child] = 0 /\ b'.energy[child] = 0
              /\ \A n \in PathNodes \ {child} : SameEntry(n)

\* C14: on an enabled controller record_connection sets the straight count
\* and the energy of the child from those of the parent (0 and half of the
\* energy above energy_to_branch for a branch, one more and energy_per_node
\* more otherwise), start_path sets the root to 0 and 0, and the entry of no
\* other node changes.
C14_RecordConnection == [][b'.pc = "energy" => RecordStep]_vars

\* a branch recorded under a parent that had gone straight, with energy left
C14_Witness ==
    /\ b.pc = "energy" /\ b.config.enabled
    /\ result.kind = "recorded" /\ result.is_branch
    /\ get_straight_count(b, result.parent) > 0
    /\ b.straight_counts[result.node] = 0
    /\ b.energy[result.node] > 0
    /\ "root" \in DOMAIN b.energy

\* C15: on an enabled controller, for every node of every recorded state,
\* can_branch is false below min_straight, else true from max_straight on,
\* else true exactly when the energy reaches energy_to_branch (the cases in
\* this order); must_branch is true exactly from max_straight on.
C15_CanMustBranch ==
    b.pc = "energy" /\ b.config.enabled =>
        \A n \in PathNodes :
            LET sc == get_straight_count(b, n)
            IN  /\ sc < b.config.min_straight => ~can_branch(b, n)
                /\ sc >= b.config.min_straight /\ sc >= b.config.max_straight =>
                       can_branch(b, n)
                /\ sc >= b.config.min_straight /\ sc < b.config.max_straight =>
                       (can_branch(b, n) <=>
                            get_energy(b, n) >= b.config.energy_to_branch)
                /\ must_branch(b, n) <=> sc >= b.config.max_straight

\* between the thresholds one node has the energy to branch and one has not,
\* and a third is below the minimum
C15_Witness ==
    /\ b.pc = "energy" /\ b.config.enabled /\ b.config.energy_to_branch > 0
    /\ \E n \in DOMAIN b.energy, m \in DOMAIN b.energy :
          /\ get_straight_count(b, n) >= b.config.min_straight
          /\ get_straight_count(b, n) < b.config.max_straight
          /\ b.energy[n] >= b.config.energy_to_branch /\ can_branch(b, n)
          /\ get_straight_count(b, m) >= b.config.min_straight
          /\ get_straight_count(b, m) < b.config.max_straight
          /\ b.energy[m] < b.config.energy_to_branch /\ ~can_branch(b, m)

\* C16: on an enabled controller should_branch returns false when can_branch
\* is false and true when can_branch and must_branch both hold, whatever the
\* draws; on a disabled controller it returns the coin flip of the first draw
\* at the given probability.
C16_ShouldBranch ==
    result.kind = "should_branch" =>
        /\ b.config.enabled /\ ~can_branch(b, result.node) =>
               ~result.value.raised /\ ~result.value.value
        /\ b.config.enabled /\ can_branch(b, result.node)
                            /\ must_branch(b, result.node) =>
               ~result.value.raised /\ result.value.value
        /\ ~b.config.enabled =>
               /\ ~result.value.raised
               /\ result.value.value = (result.r1 < result.p)

\* a forced branch on a draw that would not pass the probability
C16_Witness ==
    /\ result.kind = "should_branch" /\ b.config.enabled
    /\ can_branch(b, result.node) /\ must_branch(b, result.node)
    /\ get_energy(b, result.node) > 0
    /\ result.r1 > result.p
    /\ ~result.value.raised /\ result.value.value

\* C17: for max_children of at least 2 calculate_children_count returns, in
\* every state and configuration: 1 when should_branch decides against a
\* branch, else a number from 2 to max_children.
C17_ReturnsNormally ==
    result.kind = "children_count" /\ result.max_children >= 2 =>
        /\ ~result.branched.raised
        /\ ~result.value.raised
        /\ ~result.branched.value => result.value.value = 1
        /\ result.branched.value => result.value.value \in 2..result.max_children

\* a scan of the position map: some registered node other than exclude_id is
\* nearer than min_spacing
ScanOverlap(pos, exclude_id) ==
    \E n \in DOMAIN b.positions \ {exclude_id} :
        DistLess(b.positions[n], pos, b.min_spacing)

\* C18: get_nearby_nodes(position, radius) returns, for every radius from 0
\* on, the registered ids at distance at most radius, each once, and
\* check_overlap is true exactly when a registered node other than exclude_id
\* is nearer than min_spacing.
C18_GridQueries ==
    /\ result.kind = "nearby" /\ result.radius # NoRadius =>
          /\ \A i \in DOMAIN result.value, j \in DOMAIN result.value :
                 i # j => result.value[i] # result.value[j]
          /\ SeqToSet(result.value) =
                 {n \in DOMAIN b.positions :
                     DistAtMost(b.positions[n],
                                Whole(result.position.x, result.position.y),
                                result.radius)}
    /\ result.kind = "overlap" =>
          result.value = ScanOverlap(Whole(result.position.x, result.position.y),
                                     result.exclude_id)

\* C19: find_valid_position returns preferred when it overlaps no node, else
\* the first probe of the five rings of twelve that overlaps no node, else
\* the point at distance 2 * min_spacing from preferred along the search
\* direction (the given direction, else parent to preferred, else (1, 0)).
C19_FindValidPosition ==
    result.kind = "found" =>
        LET preferred == Whole(result.preferred.x, result.preferred.y)
            dir  == SearchDirection(result.preferred, result.parent_pos,
                                    result.direction)
            free == {i \in 1..60 :
                        ~ScanOverlap(Probe(b, result.preferred, dir, i), NoId)}
            reach == 2 * b.min_spacing
        IN  /\ ~ScanOverlap(preferred, NoId) => result.value = preferred
            /\ ScanOverlap(preferred, NoId) /\ free # {} =>
                   result.value = Probe(b, result.preferred, dir, FirstId(free))
            /\ ScanOverlap(preferred, NoId) /\ free = {} =>
                   /\ result.value =
                          VecAdd(preferred,
                                 VecScale(Rotate(dir, 0), reach \div Unit))
                   /\ DistSq(result.value, preferred) = <<reach * reach, 0>>

\* C20: for nodes registered at one position with min_spacing 1.0, an
\* iteration of repel_nearby_nodes that starts with pairs nearer than
\* min_spacing ends with fewer of them.
C20_RepelSeparates ==
    [][(/\ b.pc = "repel" /\ b.cluster /\ b.min_spacing = Unit
        /\ b'.iterations < b.iterations
        /\ ClosePairs(b) # {})
       => Cardinality(ClosePairs(b')) < Cardinality(ClosePairs(b))]_vars

----------------------------------------------------------------------------
(* The six-item example *)

\* C21: in the six-item example (Novice A, B, C and Apprentice D, E, F of the
\* themes fire, frost, shock; linear shape, two children per node, no
\* convergence) A is the root, B and C are children of the root, D is under a
\* fire-themed node, E under B and F under C, no item is left to the orphan
\* attachment and no node is unreachable.
C21_Scenario ==
    /\ b.pc = "orphans" => b.todo = <<>>
    /\ Built =>
          /\ b.root_id = 1
          /\ {2, 3} \subseteq b.nodes[1].children
          /\ \E p \in b.nodes[4].prerequisites : b.nodes[p].theme = "fire"
          /\ 5 \in b.nodes[2].children
          /\ 6 \in b.nodes[3].children
          /\ get_reachable_from_root(b.nodes, b.root_id) = DOMAIN b.nodes

\* what the build returns under the default tier rules: D and B under the
\* root, E under B, F under D, and C attached to the full root as an orphan
C21_Returned ==
    /\ Built /\ cfg.strict_tier_ordering /\ cfg.allow_same_tier_links
    /\ b.nodes[1].children = {2, 3, 4}
    /\ b.nodes[2].children = {5}
    /\ b.nodes[4].children = {6}
    /\ b.nodes[3].children = {}

----------------------------------------------------------------------------
(* _maybe_add_convergence *)

\* the cap of tier_max_prereqs, by tier name
PrereqCap(tier) ==
    CASE tier = "Novice"     -> 1
      [] tier = "Apprentice" -> 2
      [] tier = "Adept"      -> 2
      [] tier = "Expert"     -> 3
      [] tier = "Master"     -> 4

\* the prerequisites a step gave to node n
AddedPrereqs(n) == b'.nodes[n].prerequisites \ b.nodes[n].prerequisites

ConvergenceStep ==
    LET n == b.cur
    IN  /\ \A p \in AddedPrereqs(n) :
              /\ p \in get_reachable_from_root(b.nodes, b.root_id)
              /\ b.nodes[p].theme # b.nodes[n].theme
              /\ p \notin b.nodes[n].prerequisites
              /\ p \notin Closure(b.nodes, {n})
              /\ n \in b'.nodes[p].children
        /\ NumPrereqs(b'.nodes, n) <= PrereqCap(b.nodes[n].tier)
        /\ \A m \in DOMAIN b.nodes \ {n} :
              b'.nodes[m].prerequisites = b.nodes[m].prerequisites

----------------------------------------------------------------------------
(* _ensure_all_reachable: one node of a pass *)

\* the unlockable nodes with spare capacity, but for fid
SpareUnlockable(fid) ==
    {u \in b.unlockable \ {fid} :
        NumChildren(b.nodes, u) < cfg.max_children_per_node}

\* the step replaced the blocking prerequisites of fid by the parent bp
ReplacedBy(fid, blocking, bp) ==
    /\ \A v \in SpareUnlockable(fid) : b.nodes[bp].depth <= b.nodes[v].depth
    /\ b'.nodes[fid].prerequisites =
           (b.nodes[fid].prerequisites \ blocking) \cup {bp}
    /\ b'.nodes[fid].depth = b.nodes[bp].depth + 1
    /\ \A m \in DOMAIN b.nodes :
          /\ b'.nodes[m].children =
                IF m = bp THEN b.nodes[m].children \cup {fid}
                ELSE IF m \in blocking THEN b.nodes[m].children \ {fid}
                ELSE b.nodes[m].children
          /\ m # fid =>
                /\ b'.nodes[m].prerequisites = b.nodes[m].prerequisites
                /\ b'.nodes[m].depth = b.nodes[m].depth
    /\ \A m \in DOMAIN b.nodes : OnCycle(b'.nodes, m) => OnCycle(b.nodes, m)

RepairFixStep ==
    LET fid      == Head(b.todo)
        blocking == b.nodes[fid].prerequisites \ b.unlockable
    IN  IF blocking = {} \/ SpareUnlockable(fid) = {}
        THEN b'.nodes = b.nodes
        ELSE \E bp \in SpareUnlockable(fid) : ReplacedBy(fid, blocking, bp)

\* C23: a repair step on an unreachable node with blocking prerequisites
\* removes exactly those, keeps its unlockable prerequisites, and links the
\* node under an unlockable node with spare capacity of the least depth; both
\* ends of every touched edge are updated, the depth of the node is the depth
\* of that parent plus one, and no node comes to lie on a cycle.
C23_RepairFix == [][b.pc = "fix" /\ b.todo # <<>> => RepairFixStep]_vars

\* a pass has fixed a node that kept an unlockable prerequisite beside its
\* new parent
C23_Witness ==
    /\ b.pc = "fix" /\ b.fixed_any
    /\ \E fid \in SeqToSet(b.unreachable) \ SeqToSet(b.todo) :
          /\ NumPrereqs(b.nodes, fid) = 2
          /\ b.nodes[fid].prerequisites \subseteq b.unlockable
          /\ \E bp \in b.nodes[fid].prerequisites :
                b.nodes[fid].depth = b.nodes[bp].depth + 1

----------------------------------------------------------------------------
(* _connect_orphans: the fallbacks *)

\* the connected nodes with spare capacity at a depth below the tier depth
SpareLower(tier_depth) ==
    {n \in b.connected :
        /\ NumChildren(b.nodes, n) < cfg.max_children_per_node
        /\ b.nodes[n].depth < tier_depth}

LowerConnected(tier_depth) ==
    {n \in b.connected : b.nodes[n].depth < tier_depth}

\* the step attached the orphan at the head of the list under parent
AttachedUnder(parent) ==
    /\ b'.nodes[Head(b.todo)].prerequisites = {parent}
    /\ Head(b.todo) \in b'.nodes[parent].children

----------------------------------------------------------------------------
(* SpacingEngine: the index and the position map *)

\* the cells of the index that hold node n
CellsOf(s, n) == {c \in DOMAIN s.spatial_index : n \in s.spatial_index[c]}

IndexDerived(s) ==
    /\ \A n \in DOMAIN s.positions : CellsOf(s, n) = {get_cell(s.positions[n])}
    /\ \A c \in DOMAIN s.spatial_index :
          s.spatial_index[c] \subseteq DOMAIN s.positions

\* C25: after any calls of register_node, unregister_node, repel_nearby_nodes
\* and clear every registered id is in exactly one cell of the index, the cell
\* of its position, no cell holds an id that is not registered, and a node of
\* the table handed to repel_nearby_nodes has the position the engine has for
\* it.
C25_IndexDerived ==
    "positions" \in DOMAIN b =>
        /\ IndexDerived(b)
        /\ \A n \in DOMAIN b.nodes \cap DOMAIN b.positions :
              b.nodes[n] = to_tuple(b.positions[n])

\* repel_nearby_nodes has returned after it pushed a node of the table out of
\* the cell it was registered in, into a cell of its own
C25_Witness ==
    /\ "positions" \in DOMAIN b /\ b.pc = "repelled"
    /\ \E n \in DOMAIN b.nodes \cap DOMAIN b.positions :
          /\ b.positions[n].x[1] % Unit # 0
          /\ b.positions[n].x[1] < 0
          /\ b.spatial_index[get_cell(b.positions[n])] = {n}
          /\ Cardinality(DOMAIN b.positions) > 1

----------------------------------------------------------------------------
(* server.py *)

\* the id a response to the line must carry: the id of the request; any id
\* will do for a line that names none
CarriesId(line, response) ==
    line.kind = "request" /\ line.id # MissingId => response.id = line.id

\* C26: for every non-empty line read after the ready signal the server
\* writes exactly one response line, with the id of the request, before it
\* reads the next line, whatever the command and whether or not the line is
\* valid JSON; after answering shutdown it reads no further line.
C26_OneResponse ==
    [][/\ b'.read = b.read + 1 /\ b'.line.kind # "empty" =>
              /\ Len(b'.stdout) = Len(b.stdout) + 1
              /\ CarriesId(b'.line, b'.stdout[Len(b'.stdout)])
       /\ b'.read = b.read + 1 => b.pc = "serving"
       /\ b'.read = b.read + 1 /\ b'.line.command = "shutdown" =>
              b'.pc = "exited"]_vars

\* a line that is not JSON was read and nothing was written for it
C26_Unanswered ==
    /\ "stdout" \in DOMAIN b /\ b.read = 1
    /\ b.line.kind = "invalid"
    /\ Len(b.stdout) = 1

----------------------------------------------------------------------------
(* Branching energy along the links of _connect_nodes *)

\* C27: with branching energy enabled, after any links of _connect_nodes no
\* recorded straight count is above max_straight.
C27_StraightBound ==
    "parent_of" \in DOMAIN b =>
        \A n \in DOMAIN b.straight_counts :
            b.straight_counts[n] <= b.config.max_straight

\* a chain of links under min_straight = 2 and max_straight = 1: the second
\* link leaves a tip that has reached the maximum and is recorded as straight
C27_PastMaximum ==
    /\ "parent_of" \in DOMAIN b /\ b.pc = "connect"
    /\ b.config.min_straight > b.config.max_straight
    /\ \E n \in DOMAIN b.parent_of :
          /\ b.straight_counts[b.parent_of[n]] = b.config.max_straight
          /\ b.straight_counts[n] = b.config.max_straight + 1

\* the bound holds where min_straight is not above max_straight
C27_Ordered ==
    "parent_of" \in DOMAIN b /\ b.config.min_straight <= b.config.max_straight =>
        \A n \in DOMAIN b.straight_counts :
            b.straight_counts[n] <= b.config.max_straight

----------------------------------------------------------------------------
(* Depths along the edges *)

\* C28: the depth grows along every edge of the tree, Y.depth > X.depth for
\* every Y in X.children, after the parent links, after every convergence
\* edge, after the orphan attachment and after the reachability repair.
C28_DepthIncreases ==
    \A x \in DOMAIN b.nodes :
        \A y \in b.nodes[x].children : b.nodes[y].depth > b.nodes[x].depth

\* a returned tree with a node under two prerequisites of different depths
C28_Witness ==
    /\ Built /\ Len(spells) = NumItems
    /\ \E y \in DOMAIN b.nodes :
          \E x1 \in b.nodes[y].prerequisites, x2 \in b.nodes[y].prerequisites :
              /\ y \in b.nodes[x1].children /\ y \in b.nodes[x2].children
              /\ b.nodes[x1].depth < b.nodes[x2].depth
              /\ b.nodes[x2].depth < b.nodes[y].depth

----------------------------------------------------------------------------
(* tree_builder.py: build_trees, the schools of one call *)

\* the shape reported for a built school: config_used.shape, which is the
\* name layoutStyle carries as well (with 'radial' written for 'organic')
ReportedShape(tree) == tree.config_used.shape

\* C29: every school of build_trees, in any order of the schools, is built
\* with the strategy that its reported shape names; a school whose shape
\* cannot be instantiated is not built with the instance that a school built
\* before it has left in the builder.
C29_StrategyReported ==
    \A i \in DOMAIN b.output :
        LET named == get_shape(ReportedShape(b.output[i]))
        IN  IF named.kind = "instance"
            THEN b.output[i].strategy = named.class
            ELSE b.output[i].strategy
                     \in {NoShape, ShapeAfterGet(NoShape, cfg.shape)}

\* the settings of self.cfg that the configuration sc does not name
KeptSettings(old, new, sc) ==
    /\ "shape" \notin sc.keys => new.shape = old.shape
    /\ "density" \notin sc.keys => new.density = old.density
    /\ "symmetry" \notin sc.keys => new.symmetry = old.symmetry
    /\ "convergence_chance" \notin sc.keys
           => new.convergence_chance = old.convergence_chance
    /\ "min_straight" \notin sc.keys
           => new.branching_energy.min_straight
                  = old.branching_energy.min_straight
    /\ "max_straight" \notin sc.keys
           => new.branching_energy.max_straight
                  = old.branching_energy.max_straight
    /\ "energy_randomness" \notin sc.keys
           => new.branching_energy.randomness = old.branching_energy.randomness

\* density, symmetry, convergence_chance and the branching thresholds are
\* the ones the builder was constructed with
OriginalSettings(s) ==
    /\ s.cfg.density = cfg.density
    /\ s.cfg.symmetry = cfg.symmetry
    /\ s.cfg.convergence_chance = cfg.convergence_chance
    /\ s.cfg.branching_energy = cfg.branching_energy
    /\ s.branching = BranchingOf(cfg)

\* a setting that the per-school configuration does not name keeps its value
UnnamedKept ==
    (b.pc = "loop" /\ b'.pc = "school" /\ b'.school \in b.school_configs.keys)
        => KeptSettings(b.cfg, b'.cfg, b.school_configs.of[b'.school])

\* a school without a per-school configuration has the original settings
UnconfiguredOriginal ==
    (b.pc = "loop" /\ b'.pc = "school" /\ b'.school \notin b.school_configs.keys)
        => OriginalSettings(b')

\* C30: applying a per-school configuration changes only the settings it
\* names (min_straight alone leaves max_straight as it was), and a school
\* without a per-school configuration is built with the density, symmetry,
\* convergence_chance and branching thresholds the builder was constructed
\* with, whatever schools were built before it.
C30_ReinitFrame == [][UnnamedKept /\ UnconfiguredOriginal]_vars

====
